---- MODULE Spec2Model ----
(***************************************************************************)
(* Bus 80 tracker backend: the pollers (services/polling.ts and the        *)
(* collector), the GTFS reference-data refresher (services/gtfs-extract.ts,*)
(* services/gtfs-static.ts, services/stop-mapping.ts) and the departures   *)
(* reconciliation (routes/departures.ts).                                  *)
(*                                                                         *)
(* The backend is one Node.js process.  Every action below is one run of   *)
(* the event loop between two suspension points (an await on network or    *)
(* file I/O, a timer): synchronous code between them is atomic.            *)
(***************************************************************************)
EXTENDS Integers, Sequences, FiniteSets, TLC

\* ------------------------------------------------------------ constants
vehiclePollInterval == 30000
departurePollInterval == 30000
MAX_BACKOFF == 300000
stalenessThreshold == 5
MAX_RAPID_FAILURES == 3
RAPID_FAILURE_WINDOW == 5000
STALE_THRESHOLD == 45000
SSE_INIT_TIMEOUT == 10000

\* ------------------------------------------------------------ bounds
\* calls of the exported startPolling(); each starts one timer chain per feed
MaxStarts == 2
\* consecutive failed polls, summed over the three feeds
MaxFails == 5
\* triggers that found the feed busy
MaxSkips == 1
\* versions of the upstream GTFS dataset (route and trip ids rotate with each)
MaxVersions == 2
\* zero-vehicle polls inside operating hours since the last poll with vehicles
MaxEmptyRun == 6
\* consecutive failed fetches of the collector's vehicle loop
MaxCollectorFails == 1
\* arrivals indexed for one stop
MaxArrivals == 2
\* consecutive failed polls of a feed while requests are served
MaxServeFails == 1
\* stops of one trip update
MaxStops == 5
\* connections of the live channel, and events written to all of them together
MaxConns == 2
MaxEvents == 4
\* EventSource objects one page creates, error events it receives, and the
\* seconds of the page's life that are followed
MaxSources == 2
MaxErrors == 4
MaxSeconds == 10
\* requests to GET /api/vehicles that are followed
MaxRequests == 2

VARIABLES
    \* ---- services/polling.ts
    started,          \* number of startPolling() calls so far
    busy,             \* vehiclePollBusy, departurePollBusy, tripUpdatePollBusy
    backoff,          \* vehicleBackoff, departureBackoff, tripUpdateBackoff (ms)
    inflight,         \* per feed: polls that passed the busy guard and await their fetch
    timers,           \* per feed: pending setTimeout(scheduleXPoll, delay) timers
    lastDelay,        \* per feed: delay given to the most recent setTimeout (0: none yet)
    cachedVehicles,   \* [data, stale]
    cachedDepartures, \* entry of config.defaultTpc: NoEntry or [data, stale]
    realtimeArrivals, \* the arrival index built by pollTripUpdates
    recordedJourneys, \* keys of the journeys handed to recordDelay
    \* ---- history of the polling run (not program state)
    fails,            \* per feed: failed polls since the last successful one
    lastResult,       \* per feed: what the most recent successful fetch returned
    lastOutcome,      \* per feed: "none", "ok" or "fail": how the most recent poll ended
    nskips,           \* triggers that returned at the busy guard
    \* ---- index.ts (main)
    mainPc,           \* "boot", "coldRefresh" (awaiting refreshGtfsData) or "running"
    \* ---- the upstream GTFS dataset and the files of the data volume
    upVersion,        \* version of the dataset gtfsStaticUrl serves now
    metaFile,         \* .gtfs-tmp/gtfs-meta.json: NoFile or [etag, lastModified]
    zipFile,          \* .gtfs-tmp/gtfs-nl.zip: NoFile, "partial" or the version it holds
    routeJson,        \* data/route.json: NoFile or a RouteData document
    routeTmp,         \* data/route.json.tmp: NoFile, a document or one half written
    \* ---- services/gtfs-static.ts
    routeData,        \* NULL or the loaded RouteData
    routeIdSet,
    tripIdSet,
    \* ---- services/stop-mapping.ts
    stopIdCache,      \* NULL or the "direction:name" -> stopId map
    \* ---- services/gtfs-extract.ts
    refreshInProgress,
    running,          \* the doRefresh() executions in progress: <<[pc, by, tok]>>
    \* ---- services/collector.ts
    cPc,              \* vehicle loop: "off", "timer" or "fetch"
    cBusy,            \* vehiclePollBusy
    cBackoff,         \* vehicleBackoff
    consecutiveEmptyPolls,
    gtfsRefreshInProgress,
    lastVehicleFingerprint,
    dbVehicles,       \* rows of the vehicles table
    proactive,        \* the 24h check: "idle" or "head" (awaiting its HEAD request)
    tBusy,            \* tripUpdatePollBusy
    tBackoff,         \* tripUpdateBackoff
    dbStopTimes,      \* rows of the stop_times table
    upTrips,          \* what the trip-updates feed serves, and the clock at the fetch
    \* ---- history of the refresh run (not program state)
    emptyRun,         \* in-window zero-vehicle polls since the last poll with vehicles
    staleTriggers,    \* triggerGtfsRefresh('staleness') calls since that poll
    lastTrigger,      \* the triggerGtfsRefresh call of the last step: "none" (no call),
                      \* "started", "dropped" or "refused" (by refreshGtfsData's own guard)
    lastCall,         \* the last completed refreshGtfsData call: what it returned, whether
                      \* it replaced the snapshot, the upstream version at its start, and
                      \* whether the call before it returned true with the upstream at the
                      \* same version from then to the end of this call
    lastLookup,       \* the lookupStopId call of the last step: NoCall or [tpc, direction, got]
    \* ---- routes/departures.ts
    response,         \* the response the last step sent to GET /api/departures, with the
                      \* stop it was asked for; NoCall when the step was no such request
    lastQuery,        \* history of that request: stop, direction, whether it was answered
                      \* from the cache, the departures it filtered as source A reported
                      \* them and as it found them, the arrivals it read, the arrival each
                      \* departure matched (0: none), the departures after matching
    directOk,         \* history: the stops a direct fetchDepartures() of a request
                      \* succeeded for
    \* ---- routes/sse.ts and the event bus
    conns,            \* the connections of GET /api/sse so far: <<[open, log]>>, log being
                      \* what was written to the response
    listeners,        \* the 'vehicles:updated' listeners of vehicleEventBus, by connection,
                      \* in the order they were added
    heartbeats,       \* the connections whose heartbeat interval is set
    pubPrint,         \* history: the fingerprint of the vehicles at the last emit
    \* ---- history of the collector's trip-update loop (not program state)
    tripPoll,         \* NoCall, or the updates and clock of the last stored trip-update poll
    \* ---- frontend: hooks/useVehicles.ts (one mounted page)
    connectionStatus, \* 'connecting', 'connected', 'reconnecting' or 'polling'
    esRef,            \* esRef.current: 0 (null) or the EventSource, by order of creation
    sources,          \* the EventSources created: <<[closed, initTimeout, openedAt]>>,
                      \* initTimeout being "armed", "cleared" or "fired"
    failTimesRef,     \* failTimesRef.current
    pollingRef,       \* pollingRef.current
    dateNow,          \* Date.now() of the page, ms
    \* ---- history of the page (not program state)
    errLog,           \* the times of the error events so far, and for each whether an
                      \* init event or a reopen came after it
    initSeen,         \* the EventSources an init event arrived on
    \* ---- history of GET /api/vehicles (not program state)
    vehiclesRes       \* how many requests were answered, and the last response

pollVars == <<started, busy, backoff, inflight, timers, lastDelay, cachedVehicles,
              cachedDepartures, realtimeArrivals, recordedJourneys, fails, lastResult,
              lastOutcome, nskips>>

refreshVars == <<mainPc, upVersion, metaFile, zipFile, routeJson, routeTmp, routeData, routeIdSet,
                 tripIdSet, stopIdCache, refreshInProgress, running, cPc, cBusy, cBackoff,
                 consecutiveEmptyPolls, gtfsRefreshInProgress, lastVehicleFingerprint,
                 dbVehicles, proactive, emptyRun, staleTriggers, lastTrigger,
                 lastCall, lastLookup>>

mergeVars == <<response, lastQuery, directOk>>

tripVars == <<tBusy, tBackoff, dbStopTimes, upTrips, tripPoll>>

liveVars == <<conns, listeners, heartbeats, pubPrint>>

clientVars == <<connectionStatus, esRef, sources, failTimesRef, pollingRef, dateNow, errLog,
                initSeen>>

reqVars == <<vehiclesRes>>

vars == <<pollVars, refreshVars, mergeVars, tripVars, liveVars, clientVars, reqVars>>

\* ------------------------------------------------------------ helpers
Min(a, b) == IF a < b THEN a ELSE b

RECURSIVE Pow2(_)
Pow2(n) == IF n = 0 THEN 1 ELSE 2 * Pow2(n - 1)

RECURSIVE SumOver(_, _)
SumOver(f, S) == IF S = {} THEN 0
                 ELSE LET x == CHOOSE y \in S : TRUE IN f[x] + SumOver(f, S \ {x})

\* ------------------------------------------------------------ services/polling.ts
Feeds == {"vehicles", "departures", "tripUpdates"}

NoEntry == [none |-> TRUE]

InitialInterval(f) == IF f = "departures" THEN departurePollInterval ELSE vehiclePollInterval

\* what a fetch of each feed can return in the polling runs
\* A departure as fetchDepartures() builds it from an OVapi pass scheduled at
\* unix second `sched` and expected `late` seconds later.  Times are local
\* "YYYY-MM-DDTHH:MM:SS" strings, held as the local second they name; OVapi
\* knows no `source`.
OvDeparture(journey, sched, late, direction) ==
    [journeyNumber |-> journey,
     scheduledDeparture |-> sched + 3600,
     expectedDeparture |-> sched + late + 3600,
     delayMinutes |-> (2 * late + 60) \div 120,
     status |-> "PLANNED",
     isDelayed |-> (2 * late + 60) \div 120 >= 1,
     destination |-> IF direction = 1 THEN "Amsterdam Elandsgracht" ELSE "Zandvoort Centrum",
     lineDirection |-> direction,
     source |-> "unset"]
DepartureResult(departures) ==
    [stop |-> [name |-> "Halfweg, Station Halfweg-Zwanenbrg", tpc |-> "55230110"],
     departures |-> departures]
\* The GTFS stop ids of the modelled dataset versions.
StopIds == {[stop |-> v, dir |-> d] : v \in 1..MaxVersions, d \in {1, 2}}
\* The arrival index realtimeArrivals: stop id -> arrivals by time; a stop
\* with no entry in the Map reads as the empty list.
\* The stop ids of a trip update's stops that the route data does not list.
RtStop(k) == [stop |-> 0, dir |-> k]
IndexStops == StopIds \cup {RtStop(k) : k \in 1..MaxStops}
ArrivalIndex(arrivals) ==
    [s \in IndexStops |-> IF s = [stop |-> 1, dir |-> 1] THEN arrivals ELSE <<>>]
RealtimeArrival(tripId, arrivalTime, delay, departed) ==
    [tripId |-> tripId, arrivalTime |-> arrivalTime, delay |-> delay, departed |-> departed]


\* ------------------------------------------------------------ trip updates
\* a time field the message does not carry (null, undefined)
NoTime == -1

\* StopTimeUpdate and TripUpdate of services/gtfs-rt.ts
StopTimeUpdate(stopId, stopSequence, arrivalTime, arrivalDelay, departureTime) ==
    [stopId |-> stopId, stopSequence |-> stopSequence,
     arrivalTime |-> arrivalTime, arrivalDelay |-> arrivalDelay,
     departureTime |-> departureTime, departureDelay |-> 0]
TripUpdate(tripId, stopTimeUpdates) ==
    [tripId |-> tripId, directionId |-> 0, stopTimeUpdates |-> stopTimeUpdates]

\* [...tu.stopTimeUpdates].sort((a, b) => a.stopSequence - b.stopSequence)
RECURSIVE InsertBySequence(_, _)
InsertBySequence(sorted, stu) ==
    IF sorted = <<>> THEN <<stu>>
    ELSE IF Head(sorted).stopSequence <= stu.stopSequence
         THEN <<Head(sorted)>> \o InsertBySequence(Tail(sorted), stu)
         ELSE <<stu>> \o sorted
RECURSIVE SortedStops(_)
SortedStops(stus) ==
    IF stus = <<>> THEN <<>>
    ELSE InsertBySequence(SortedStops(SubSeq(stus, 1, Len(stus) - 1)), stus[Len(stus)])

\* `stu.arrivalTime ?? stu.departureTime`
TimeOf(stu) == IF stu.arrivalTime # NoTime THEN stu.arrivalTime ELSE stu.departureTime

\* `time !== null && time > now - 60`
PendingIncl(time, now) == time # NoTime /\ time >= now - 60
Pending(time, now) == time # NoTime /\ time > now - 60

\* sortedStops.findIndex(...): positions count from 1 here, 0 stands for -1
NextStopIdx(sortedStops, now) ==
    LET hits == {i \in DOMAIN sortedStops : Pending(TimeOf(sortedStops[i]), now)}
    IN IF hits = {} THEN 0 ELSE CHOOSE i \in hits : \A j \in hits : i <= j

\* `nextStopIdx === -1 || i < nextStopIdx`
DepartedUpToNext(nextStopIdx, i) == nextStopIdx = 0 \/ i <= nextStopIdx
Departed(nextStopIdx, i) == nextStopIdx = 0 \/ i < nextStopIdx

\* a list of lists, concatenated
RECURSIVE Flatten(_)
Flatten(qs) == IF qs = <<>> THEN <<>> ELSE Head(qs) \o Flatten(Tail(qs))

\* pollTripUpdates: the arrivals one trip update contributes, with their stop.
\* A stop with no time (or time 0) is skipped.
TripArrivals(tu, now) ==
    LET sortedStops == SortedStops(tu.stopTimeUpdates)
        nextStopIdx == NextStopIdx(sortedStops, now)
        all == [i \in DOMAIN sortedStops |->
                   [stopId |-> sortedStops[i].stopId,
                    skip |-> TimeOf(sortedStops[i]) = NoTime \/ TimeOf(sortedStops[i]) = 0,
                    arrival |-> [tripId |-> tu.tripId,
                                 arrivalTime |-> TimeOf(sortedStops[i]),
                                 delay |-> IF sortedStops[i].arrivalDelay # 0
                                           THEN sortedStops[i].arrivalDelay
                                           ELSE sortedStops[i].departureDelay,
                                 departed |-> Departed(nextStopIdx, i)]]]
    IN SelectSeq(all, LAMBDA a : ~a.skip)

\* arrivals.sort((a, b) => a.arrivalTime - b.arrivalTime)
RECURSIVE InsertByArrival(_, _)
InsertByArrival(sorted, a) ==
    IF sorted = <<>> THEN <<a>>
    ELSE IF Head(sorted).arrivalTime <= a.arrivalTime
         THEN <<Head(sorted)>> \o InsertByArrival(Tail(sorted), a)
         ELSE <<a>> \o sorted
RECURSIVE SortByArrival(_)
SortByArrival(q) ==
    IF q = <<>> THEN <<>>
    ELSE InsertByArrival(SortByArrival(SubSeq(q, 1, Len(q) - 1)), q[Len(q)])

\* The index pollTripUpdates builds from the updates of one fetch.
BuildIndex(updates, now) ==
    LET all == Flatten([k \in DOMAIN updates |-> TripArrivals(updates[k], now)])
    IN [s \in IndexStops |->
           LET here == SelectSeq(all, LAMBDA a : a.stopId = s)
           IN SortByArrival([i \in DOMAIN here |-> here[i].arrival])]

\* pollAndStoreTripUpdates: the rows one trip update contributes, every stop.
TripRows(tu, now) ==
    LET sortedStops == SortedStops(tu.stopTimeUpdates)
        nextStopIdx == NextStopIdx(sortedStops, now)
    IN [i \in DOMAIN sortedStops |->
           [trip_id |-> tu.tripId,
            stop_id |-> sortedStops[i].stopId,
            stop_sequence |-> sortedStops[i].stopSequence,
            direction |-> IF tu.directionId = 0 THEN 1 ELSE 2,
            arrival_time |-> sortedStops[i].arrivalTime,
            arrival_delay |-> sortedStops[i].arrivalDelay,
            departure_time |-> sortedStops[i].departureTime,
            departure_delay |-> sortedStops[i].departureDelay,
            departed |-> IF Departed(nextStopIdx, i) THEN 1 ELSE 0]]
StopTimeRows(updates, now) == Flatten([k \in DOMAIN updates |-> TripRows(updates[k], now)])

\* What fetchTripUpdates() returned, and the clock read after it.
TripPayload(updates, now) == [updates |-> updates, now |-> now]

\* What a fetch of feed f may return: two payloads per feed.
SampleResults(f) ==
    IF f = "departures"
    THEN {DepartureResult(<<OvDeparture(1, 0, 0, 1)>>),
          DepartureResult(<<OvDeparture(1, 0, 0, 1), OvDeparture(2, 300, 60, 1)>>)}
    ELSE IF f = "tripUpdates"
    THEN {TripPayload(<<>>, 0),
          TripPayload(<<TripUpdate("tripA", <<StopTimeUpdate([stop |-> 1, dir |-> 1], 1, 120, 0, NoTime)>>)>>, 0)}
    ELSE {<<f, 1>>, <<f, 2>>}

\* `if (xPollBusy) return;`
BusyGuardOff(f) == FALSE
BusyGuard(f) == busy[f]

\* `xBackoff = Math.min(xBackoff * 2, MAX_BACKOFF)`
DoubledUncapped(b) == b * 2
Doubled(b) == Min(b * 2, MAX_BACKOFF)

\* `xBackoff = config.xPollInterval` on success
ResetToZero(f) == 0
ResetBackoff(f) == InitialInterval(f)

PollInit ==
    /\ started = 0
    /\ busy = [f \in Feeds |-> FALSE]
    /\ backoff = [f \in Feeds |-> InitialInterval(f)]
    /\ inflight = [f \in Feeds |-> 0]
    /\ timers = [f \in Feeds |-> 0]
    /\ lastDelay = [f \in Feeds |-> 0]
    /\ cachedVehicles = [data |-> <<>>, stale |-> FALSE]
    /\ cachedDepartures = NoEntry
    /\ realtimeArrivals = ArrivalIndex(<<>>)
    /\ recordedJourneys = {}
    /\ fails = [f \in Feeds |-> 0]
    /\ lastResult = [f \in Feeds |-> <<>>]
    /\ lastOutcome = [f \in Feeds |-> "none"]
    /\ nskips = 0

\* startPolling(): scheduleVehiclePoll(); scheduleDeparturePoll(); scheduleTripUpdatePoll().
\* Each calls its poll function at once; a call that returns at the busy guard
\* resolves immediately and its .finally() arms the next timer.
StartPolling ==
    /\ started < MaxStarts
    /\ started' = started + 1
    /\ \A f \in Feeds : BusyGuard(f) => nskips < MaxSkips
    /\ busy' = [f \in Feeds |-> TRUE]
    /\ inflight' = [f \in Feeds |-> IF BusyGuard(f) THEN inflight[f] ELSE inflight[f] + 1]
    /\ timers' = [f \in Feeds |-> IF BusyGuard(f) THEN timers[f] + 1 ELSE timers[f]]
    /\ lastDelay' = [f \in Feeds |-> IF BusyGuard(f) THEN backoff[f] ELSE lastDelay[f]]
    /\ nskips' = IF \E f \in Feeds : BusyGuard(f) THEN nskips + 1 ELSE nskips
    /\ UNCHANGED <<backoff, cachedVehicles, cachedDepartures, realtimeArrivals,
                   recordedJourneys, fails, lastResult, lastOutcome>>

\* A timer of feed f fires, scheduleXPoll() calls pollX(), the busy flag is
\* clear: the poll sets it and suspends in its fetch.
PollBegin(f) ==
    /\ timers[f] > 0
    /\ ~BusyGuard(f)
    /\ timers' = [timers EXCEPT ![f] = @ - 1]
    /\ busy' = [busy EXCEPT ![f] = TRUE]
    /\ inflight' = [inflight EXCEPT ![f] = @ + 1]
    /\ UNCHANGED <<started, backoff, lastDelay, cachedVehicles, cachedDepartures,
                   realtimeArrivals, recordedJourneys, fails, lastResult, lastOutcome, nskips>>

\* A timer of feed f fires while the busy flag is set: pollX() returns at
\* once and the .finally() of scheduleXPoll arms the next timer.
PollSkip(f) ==
    /\ timers[f] > 0
    /\ BusyGuard(f)
    /\ nskips < MaxSkips
    /\ nskips' = nskips + 1
    /\ lastDelay' = [lastDelay EXCEPT ![f] = backoff[f]]
    /\ UNCHANGED <<started, busy, backoff, inflight, timers, cachedVehicles,
                   cachedDepartures, realtimeArrivals, recordedJourneys, fails, lastResult,
                   lastOutcome>>

\* The cache of feed f after a successful poll that fetched `result`.
StoreVehicles(result) == [data |-> result, stale |-> FALSE]
StoreDepartures(result) == [data |-> result, stale |-> FALSE]
StoreArrivals(result) == BuildIndex(result.updates, result.now)

\* The catch blocks: what a failed poll does to the cache.
FailVehicles == [cachedVehicles EXCEPT !.stale = TRUE]
FailDepartures == IF cachedDepartures = NoEntry THEN NoEntry
                  ELSE [cachedDepartures EXCEPT !.stale = TRUE]

\* `vehicleBackoff = ...`, `departureBackoff = ...`, `tripUpdateBackoff = ...`:
\* each poll function assigns the variable of its own feed
SetSharedBackoff(f, newBackoff) == [g \in Feeds |-> newBackoff]
SetBackoff(f, newBackoff) == [backoff EXCEPT ![f] = newBackoff]

\* The timers of a feed once pollX() has settled: scheduleXPoll arms the next
\* one in `.finally(() => { setTimeout(scheduleXPoll, xBackoff); })`, whatever
\* the poll did.
ArmedAfterThen(pending, failed) == IF failed THEN pending ELSE pending + 1
ArmedAfter(pending, failed) == pending + 1

\* finally { busy = false } of the poll, then the .finally() of scheduleXPoll:
\* setTimeout(scheduleXPoll, xBackoff) with the backoff the poll left.
Complete(f, newBackoff, failed) ==
    /\ inflight[f] > 0
    /\ inflight' = [inflight EXCEPT ![f] = @ - 1]
    /\ busy' = [busy EXCEPT ![f] = FALSE]
    /\ backoff' = SetBackoff(f, newBackoff)
    /\ timers' = [timers EXCEPT ![f] = ArmedAfter(@, failed)]
    /\ lastDelay' = [lastDelay EXCEPT ![f] = newBackoff]
    /\ UNCHANGED <<started, nskips>>

\* The delay-recording loop of pollDepartures: the departures it hands to
\* recordDelay are the delayed ones whose key is not yet in recordedJourneys.
JourneyKey(dep) == <<dep.journeyNumber, dep.scheduledDeparture>>
ToRecord(departures) ==
    {i \in DOMAIN departures :
        /\ JourneyKey(departures[i]) \notin recordedJourneys
        /\ departures[i].isDelayed /\ departures[i].delayMinutes >= 1}

\* The fetch of feed f returns: the try block runs to its end.
PollOk(f, result) ==
    /\ Complete(f, ResetBackoff(f), FALSE)
    /\ cachedVehicles' = IF f = "vehicles" THEN StoreVehicles(result) ELSE cachedVehicles
    /\ cachedDepartures' = IF f = "departures" THEN StoreDepartures(result) ELSE cachedDepartures
    /\ realtimeArrivals' = IF f = "tripUpdates" THEN StoreArrivals(result) ELSE realtimeArrivals
    /\ recordedJourneys' =
          IF f = "departures"
          THEN recordedJourneys
                  \cup {JourneyKey(result.departures[i]) : i \in ToRecord(result.departures)}
          ELSE recordedJourneys
    /\ fails' = [fails EXCEPT ![f] = 0]
    /\ lastResult' = [lastResult EXCEPT ![f] = result]
    /\ lastOutcome' = [lastOutcome EXCEPT ![f] = "ok"]

\* The fetch of feed f throws (network error, non-2xx status, undecodable
\* payload): the catch block runs.
PollFail(f) ==
    /\ SumOver(fails, Feeds) < MaxFails
    /\ Complete(f, Doubled(backoff[f]), TRUE)
    /\ cachedVehicles' = IF f = "vehicles" THEN FailVehicles ELSE cachedVehicles
    /\ cachedDepartures' = IF f = "departures" THEN FailDepartures ELSE cachedDepartures
    /\ UNCHANGED <<realtimeArrivals, recordedJourneys>>
    /\ fails' = [fails EXCEPT ![f] = @ + 1]
    /\ UNCHANGED lastResult
    /\ lastOutcome' = [lastOutcome EXCEPT ![f] = "fail"]

\* fetchDepartures() returns `result`, the cache entry is set, then
\* recordDelay throws (a database error) at departure `at`: the catch block
\* flags the entry just stored and doubles the backoff.
PollRecordFail(result, at) ==
    /\ SumOver(fails, Feeds) < MaxFails
    /\ at \in ToRecord(result.departures)
    /\ Complete("departures", Doubled(backoff["departures"]), TRUE)
    /\ cachedDepartures' = [StoreDepartures(result) EXCEPT !.stale = TRUE]
    /\ recordedJourneys' =
          recordedJourneys
             \cup {JourneyKey(result.departures[i]) :
                      i \in {j \in ToRecord(result.departures) : j < at}}
    /\ fails' = [fails EXCEPT !["departures"] = @ + 1]
    /\ lastOutcome' = [lastOutcome EXCEPT !["departures"] = "fail"]
    /\ lastResult' = [lastResult EXCEPT !["departures"] = result]
    /\ UNCHANGED <<cachedVehicles, realtimeArrivals>>


\* ------------------------------------------------------------ reference data
NULL == [null |-> TRUE]
NoFile == [nofile |-> TRUE]
NoCall == [nocall |-> TRUE]

Range(q) == {q[i] : i \in DOMAIN q}

\* The version token of dataset version v: the ETag and Last-Modified headers.
Token(v) == [etag |-> v, lastModified |-> v]
NoToken == [etag |-> 0, lastModified |-> 0]

\* Identifiers rotate with every dataset version.
RouteIdOf(v) == <<"route", v>>
TripIdOf(v, k) == <<"trip", v, k>>
StopIdOf(v, d) == [stop |-> v, dir |-> d]

HalfwegName == "Halfweg, Station Halfweg-Zwanenbrg"

\* stop-mapping.ts TPC_TO_NAME (the two Halfweg entries); any other code has no entry
TPC_TO_NAME ==
    [t \in {"55230110", "55230100"} |->
        IF t = "55230110" THEN [name |-> HalfwegName, direction |-> 1]
        ELSE [name |-> HalfwegName, direction |-> 2]]
Tpcs == {"55230110", "55230100", "00000000"}

\* parseGtfsData(zipPath, tmpDir, lastModified, etag) on a zip holding dataset
\* version zv: the RouteData document.
ShapeIdOf(zv, k) == <<"shape", zv, k>>
ParseGtfsData(zv, tok) ==
    [metadata |-> [gtfsEtag |-> tok.etag, gtfsLastModified |-> tok.lastModified],
     routeIds |-> <<RouteIdOf(zv)>>,
     tripIds |-> <<TripIdOf(zv, 1), TripIdOf(zv, 2)>>,
     tripDirectionMap |-> [t \in {TripIdOf(zv, 1), TripIdOf(zv, 2)} |->
                              IF t = TripIdOf(zv, 1) THEN 0 ELSE 1],
     stops |-> [route |->
                  [direction1 |-> <<[stopId |-> StopIdOf(zv, 1), name |-> HalfwegName]>>,
                   direction2 |-> <<[stopId |-> StopIdOf(zv, 2), name |-> HalfwegName]>>]],
     shapes |-> [sh \in {ShapeIdOf(zv, 1), ShapeIdOf(zv, 2)} |->
                    IF sh = ShapeIdOf(zv, 1) THEN <<<<zv, 1>>, <<zv, 2>>, <<zv, 3>>>>
                    ELSE <<<<zv, 3>>, <<zv, 1>>>>],
     tripShapeMap |-> [t \in {TripIdOf(zv, 1), TripIdOf(zv, 2)} |->
                          IF t = TripIdOf(zv, 1) THEN ShapeIdOf(zv, 1) ELSE ShapeIdOf(zv, 2)]]

\* ------------------------------------------------------------ services/gtfs-static.ts
\* loadRouteData() with route.json holding `file`: no await separates the
\* three assignments.
LoadRouteDataOnly(file) ==
    IF file = NoFile THEN UNCHANGED <<routeData, routeIdSet, tripIdSet>>
    ELSE routeData' = file /\ UNCHANGED <<routeIdSet, tripIdSet>>
LoadRouteData(file) ==
    IF file = NoFile THEN UNCHANGED <<routeData, routeIdSet, tripIdSet>>
    ELSE /\ routeData' = file
         /\ routeIdSet' = Range(file.routeIds)
         /\ tripIdSet' = Range(file.tripIds)

\* getPrimaryShapes(): per direction the longest shape of its trips, the first
\* of them when several are as long; nothing without route data.
RECURSIVE LongestShape(_, _, _)
LongestShape(rd, shapeIds, longestShape) ==
    IF shapeIds = <<>> THEN longestShape
    ELSE LET shape == IF Head(shapeIds) \in DOMAIN rd.shapes
                      THEN rd.shapes[Head(shapeIds)] ELSE <<>>
         IN LongestShape(rd, Tail(shapeIds),
                         IF Len(shape) > Len(longestShape) THEN shape ELSE longestShape)
RECURSIVE Distinct(_)
Distinct(q) ==
    IF q = <<>> THEN <<>>
    ELSE LET front == Distinct(SubSeq(q, 1, Len(q) - 1))
         IN IF q[Len(q)] \in Range(front) THEN front ELSE Append(front, q[Len(q)])
ShapesByDir(rd, dir) ==
    LET trips == SelectSeq(rd.tripIds,
                     LAMBDA t : /\ t \in DOMAIN rd.tripShapeMap
                                /\ (IF t \in DOMAIN rd.tripDirectionMap
                                    THEN rd.tripDirectionMap[t] ELSE 0) = dir)
    IN Distinct([k \in DOMAIN trips |-> rd.tripShapeMap[trips[k]]])
NoShapes == [direction1 |-> <<>>, direction2 |-> <<>>]
getPrimaryShapes ==
    IF routeData = NULL THEN NoShapes
    ELSE [direction1 |-> LongestShape(routeData, ShapesByDir(routeData, 0), <<>>),
          direction2 |-> LongestShape(routeData, ShapesByDir(routeData, 1), <<>>)]

isKnownRouteId(routeId) == routeId \in routeIdSet
isKnownTripId(tripId) == tripId \in tripIdSet

getDirectionForTrip(tripId) ==
    IF routeData = NULL THEN NULL
    ELSE IF tripId \in DOMAIN routeData.tripDirectionMap
         THEN [dir |-> routeData.tripDirectionMap[tripId]] ELSE NULL

\* ------------------------------------------------------------ services/stop-mapping.ts
\* buildStopIdCache(): <<direction, name>> -> stopId from the loaded route data
buildStopIdCache(rd) ==
    IF rd = NULL THEN <<>>
    ELSE LET stops == rd.stops.route
             keys == {<<1, stops.direction1[i].name>> : i \in DOMAIN stops.direction1}
                     \cup {<<2, stops.direction2[i].name>> : i \in DOMAIN stops.direction2}
             last(q, n) == q[CHOOSE i \in DOMAIN q :
                                /\ q[i].name = n
                                /\ \A j \in DOMAIN q : q[j].name = n => j <= i].stopId
         IN [k \in keys |-> IF k[1] = 1 THEN last(stops.direction1, k[2])
                            ELSE last(stops.direction2, k[2])]

\* The answer of lookupStopId(tpc, direction) from the map `cache`.
StopIdFrom(cache, tpc, direction) ==
    IF tpc \notin DOMAIN TPC_TO_NAME THEN NULL
    ELSE LET key == <<direction, TPC_TO_NAME[tpc].name>>
         IN IF key \in DOMAIN cache THEN cache[key] ELSE NULL

\* lookupStopId(tpc, direction): builds the map on first use.
LookupCache == IF stopIdCache = NULL THEN buildStopIdCache(routeData) ELSE stopIdCache.map
lookupStopId(tpc, direction) ==
    /\ stopIdCache' = [map |-> LookupCache]
    /\ lastLookup' = [tpc |-> tpc, direction |-> direction,
                      got |-> StopIdFrom(LookupCache, tpc, direction)]

\* invalidateStopIdCache()
KeepStopIdCache == stopIdCache
invalidateStopIdCache == NULL

\* ------------------------------------------------------------ services/gtfs-extract.ts
fsVars == <<metaFile, zipFile, routeJson, routeTmp>>
snapVars == <<routeData, routeIdSet, tripIdSet>>
collVars == <<cBusy, cBackoff, consecutiveEmptyPolls, lastVehicleFingerprint, dbVehicles,
              emptyRun, staleTriggers>>

\* No doRefresh() sits between its `await loadRouteData()` and the statement
\* after it.  loadRouteData() has no suspension point of its own, so doRefresh
\* resumes from the microtask queue, which Node drains before it runs the next
\* timer or I/O callback: nothing else of the program runs in between.
\* A step with no triggerGtfsRefresh call and no lookupStopId call in it.
Quiet == lastTrigger' = "none" /\ lastLookup' = NoCall

NoMicrotask == \A i \in DOMAIN running : running[i].pc # "loaded"

Without(q, i) == [j \in 1..(Len(q) - 1) |-> IF j < i THEN q[j] ELSE q[j + 1]]

\* refreshGtfsData() past its guard: refreshInProgress = true, and doRefresh()
\* up to its first await (the HEAD request).
RefreshEnter(by) ==
    /\ refreshInProgress' = TRUE
    /\ running' = Append(running, [pc |-> "head", by |-> by, tok |-> NoToken,
                                   upStart |-> upVersion])

\* gtfsRefreshInProgress once the promise of refreshGtfsData() has settled
\* with `updated`: `.finally(() => { gtfsRefreshInProgress = false; })`
TriggerThen(updated) == ~updated
TriggerFinally(updated) == FALSE

\* refreshGtfsData() returns `ret`: its finally clears refreshInProgress, then
\* the caller continues: triggerGtfsRefresh's .finally() clears
\* gtfsRefreshInProgress; main() starts the collector and the server.
RefreshReturn(i, ret, installed) ==
    /\ running' = Without(running, i)
    /\ refreshInProgress' = FALSE
    /\ lastCall' = [ret |-> ret, installed |-> installed, upStart |-> running[i].upStart,
                    afterTrue |-> /\ lastCall # NoCall
                                  /\ lastCall.ret
                                  /\ lastCall.upStart = upVersion]
    /\ IF running[i].by = "trigger"
       THEN gtfsRefreshInProgress' = TriggerFinally(ret) /\ UNCHANGED <<mainPc, cPc>>
       ELSE mainPc' = "running" /\ cPc' = "timer" /\ UNCHANGED gtfsRefreshInProgress
    /\ UNCHANGED upVersion

\* doRefresh() throws, or returns false at `if (!routeData) return false`,
\* ahead of `await loadRouteData()`: `catch (err) { ...; return false; }`, with
\* no assignment to the snapshot or to the bridge on the way out.
RefreshFailedUnloads(i) ==
    /\ RefreshReturn(i, FALSE, FALSE)
    /\ routeData' = NULL /\ routeIdSet' = {} /\ tripIdSet' = {}
    /\ stopIdCache' = NULL
RefreshFailed(i) ==
    /\ RefreshReturn(i, FALSE, FALSE)
    /\ UNCHANGED <<snapVars, stopIdCache>>

\* what is left of the state when a doRefresh step returns from refreshGtfsData
ReturnFrame == <<collVars, proactive>>

\* gtfs-meta.json after `writeFileSync(metaPath, JSON.stringify({ lastModified, etag }))`
MetaNotWritten(tok) == metaFile
MetaAfterDownload(tok) == tok

\* The HEAD request returns.  The cached zip and route.json are compared
\* with the headers; the refresh ends here, re-extracts the cached zip, or
\* downloads.
RefreshHeadOk(i) ==
    /\ running[i].pc = "head"
    /\ LET tok == Token(upVersion)
           goto(pc) == /\ running' = [running EXCEPT ![i] = [@ EXCEPT !.pc = pc, !.tok = tok]]
                       /\ UNCHANGED <<refreshInProgress, gtfsRefreshInProgress, mainPc, cPc,
                                      lastCall, upVersion>>
       IN IF metaFile # NoFile /\ zipFile # NoFile
          THEN IF metaFile.etag = tok.etag /\ metaFile.lastModified = tok.lastModified
               THEN IF routeJson # NoFile /\ routeJson.metadata.gtfsEtag = tok.etag
                    THEN RefreshReturn(i, FALSE, FALSE)
                    ELSE goto("parse")
               ELSE goto("download")
          ELSE goto("download")
    /\ UNCHANGED <<fsVars, snapVars, stopIdCache, ReturnFrame>>
    /\ Quiet

\* The HEAD request fails: doRefresh throws, refreshGtfsData catches.
RefreshHeadFail(i) ==
    /\ running[i].pc = "head"
    /\ RefreshFailed(i)
    /\ UNCHANGED <<fsVars, ReturnFrame>>
    /\ Quiet

\* downloadZip() completes; the meta file is written; parseGtfsData starts.
RefreshDownloadOk(i) ==
    /\ running[i].pc = "download"
    /\ zipFile' = [version |-> upVersion]
    /\ metaFile' = MetaAfterDownload(running[i].tok)
    /\ running' = [running EXCEPT ![i] = [@ EXCEPT !.pc = "parse"]]
    /\ UNCHANGED <<routeJson, routeTmp, snapVars, stopIdCache, ReturnFrame, refreshInProgress,
                   gtfsRefreshInProgress, mainPc, cPc, lastCall, upVersion>>
    /\ Quiet

\* downloadZip() throws: on a bad status before the zip is touched, or in
\* the middle of the stream, which leaves a truncated zip.
RefreshDownloadFail(i, truncated) ==
    /\ running[i].pc = "download"
    /\ zipFile' = IF truncated THEN [partial |-> TRUE] ELSE zipFile
    /\ RefreshFailed(i)
    /\ UNCHANGED <<metaFile, routeJson, routeTmp, ReturnFrame>>
    /\ Quiet

\* parseGtfsData() returns the document: route.json is written to .tmp and
\* renamed, then loadRouteData() reads it.
RefreshParseOk(i) ==
    /\ running[i].pc = "parse"
    /\ zipFile # NoFile /\ zipFile # [partial |-> TRUE]
    /\ LET doc == ParseGtfsData(zipFile.version, running[i].tok)
       IN /\ routeJson' = doc
          /\ routeTmp' = NoFile
          /\ LoadRouteData(doc)
    /\ running' = [running EXCEPT ![i] = [@ EXCEPT !.pc = "loaded"]]
    /\ UNCHANGED <<metaFile, zipFile, stopIdCache, ReturnFrame, refreshInProgress,
                   gtfsRefreshInProgress, mainPc, cPc, lastCall, upVersion>>
    /\ Quiet

\* parseGtfsData() throws (unreadable zip) or returns null (agency or route
\* not found).
RefreshParseFail(i) ==
    /\ running[i].pc = "parse"
    /\ RefreshFailed(i)
    /\ UNCHANGED <<fsVars, ReturnFrame>>
    /\ Quiet

\* The same write as the data volume sees it, one file operation at a time:
\* writeFileSync(tmpOutputPath, ...) creates the file and fills it,
\* renameSync(tmpOutputPath, outputPath) replaces the target in one operation.
HalfWritten == [partial |-> TRUE]
outputPath == "route.json"
AlsoOutputPath == "route.json"
tmpOutputPath == "route.json.tmp"
WriteFile(path, content) ==
    IF path = outputPath THEN routeJson' = content /\ UNCHANGED routeTmp
    ELSE routeTmp' = content /\ UNCHANGED routeJson
RenameFile(from, to) ==
    IF from = to THEN UNCHANGED <<routeJson, routeTmp>>
    ELSE routeJson' = routeTmp /\ routeTmp' = NoFile
WriteStep(i, from, to) ==
    /\ running[i].pc = from
    /\ running' = [running EXCEPT ![i] = [@ EXCEPT !.pc = to]]
    /\ UNCHANGED <<metaFile, zipFile, stopIdCache, ReturnFrame, refreshInProgress,
                   gtfsRefreshInProgress, mainPc, cPc, lastCall, upVersion>>
    /\ Quiet

\* parseGtfsData() returned: the write to the temporary file begins
RefreshWriteOpen(i) ==
    /\ zipFile # NoFile /\ zipFile # [partial |-> TRUE]
    /\ WriteStep(i, "parse", "writing")
    /\ WriteFile(tmpOutputPath, HalfWritten)
    /\ UNCHANGED snapVars

\* the write to the temporary file completes
RefreshWriteEnd(i) ==
    /\ WriteStep(i, "writing", "written")
    /\ WriteFile(tmpOutputPath, ParseGtfsData(zipFile.version, running[i].tok))
    /\ UNCHANGED snapVars

\* renameSync, then loadRouteData() reads route.json
RefreshRename(i) ==
    /\ WriteStep(i, "written", "loaded")
    /\ RenameFile(tmpOutputPath, outputPath)
    /\ LoadRouteData(ParseGtfsData(zipFile.version, running[i].tok))

\* doRefresh resumes after `await loadRouteData()`: invalidateStopIdCache();
\* return true.
RefreshInvalidate(i) ==
    /\ running[i].pc = "loaded"
    /\ stopIdCache' = invalidateStopIdCache
    /\ RefreshReturn(i, TRUE, TRUE)
    /\ UNCHANGED <<fsVars, snapVars, ReturnFrame>>
    /\ Quiet

\* ------------------------------------------------------------ services/collector.ts
\* `if (gtfsRefreshInProgress) { ...; return; }`
TriggerGuardOff == FALSE
TriggerGuard == gtfsRefreshInProgress

\* triggerGtfsRefresh(reason).  refreshGtfsData() runs synchronously up to
\* its first await; when it returns at its own guard, the .finally() of the
\* trigger clears gtfsRefreshInProgress in the same turn.
triggerGtfsRefresh ==
    /\ IF TriggerGuard
       THEN /\ lastTrigger' = "dropped"
            /\ UNCHANGED <<gtfsRefreshInProgress, refreshInProgress, running>>
       ELSE IF refreshInProgress
            THEN /\ lastTrigger' = "refused"
                 /\ gtfsRefreshInProgress' = TriggerFinally(FALSE)
                 /\ UNCHANGED <<refreshInProgress, running>>
            ELSE /\ lastTrigger' = "started"
                 /\ gtfsRefreshInProgress' = TRUE
                 /\ RefreshEnter("trigger")

\* isDuringOperatingHours(): the Amsterdam hour is 6..23 or 0 (midnight comes
\* out of toLocaleString as 0 or as 24, by ICU version)
isDuringOperatingHours(amsterdamHour) == amsterdamHour >= 6 \/ amsterdamHour = 0
Hours == {0, 5, 6, 24}

\* `consecutiveEmptyPolls >= config.stalenessThreshold`
ThresholdPassed(n) == n > stalenessThreshold
ThresholdReached(n) == n >= stalenessThreshold

\* One vehicle of the upstream feed while the dataset is at version v.
\* trip and position tell whether the entity has entity.vehicle.trip and
\* entity.vehicle.position.
FeedVehicle(v) ==
    [vehicleId |-> "bus1", tripId |-> TripIdOf(v, 1), routeId |-> RouteIdOf(v),
     directionId |-> NULL, latitude |-> 1, longitude |-> 1, delaySeconds |-> 0,
     trip |-> TRUE, position |-> TRUE]
RawFeeds == {<<>>, <<FeedVehicle(upVersion)>>}

\* `if (!isKnownRouteId(routeId) && !isKnownTripId(tripId)) continue;`
KnownBoth(routeId, tripId) == isKnownRouteId(routeId) /\ isKnownTripId(tripId)
KnownEntity(routeId, tripId) == isKnownRouteId(routeId) \/ isKnownTripId(tripId)

\* fetchVehiclePositions(): the entities with a trip, a known route or trip
\* id and a position
fetchVehiclePositions(feed) ==
    SelectSeq(feed, LAMBDA e : e.trip /\ KnownEntity(e.routeId, e.tripId) /\ e.position)

\* One entity of the trip-updates feed: `trip` tells whether it has
\* entity.tripUpdate.trip, a stop-time update without stop_id has stopId NULL.
FeedTripUpdate(routeId, tripId, stopTimeUpdates) ==
    [routeId |-> routeId, tripId |-> tripId, directionId |-> 0, trip |-> TRUE,
     stopTimeUpdates |-> stopTimeUpdates]

\* fetchTripUpdates(): the entities with a trip, a known route or trip id and
\* at least one stop-time update that names its stop
fetchTripUpdates(feed) ==
    LET named(tu) == SelectSeq(tu.stopTimeUpdates, LAMBDA stu : stu.stopId # NULL)
        kept == SelectSeq(feed, LAMBDA tu : /\ tu.trip
                                            /\ KnownEntity(tu.routeId, tu.tripId)
                                            /\ Len(named(tu)) > 0)
    IN [i \in DOMAIN kept |-> [kept[i] EXCEPT !.stopTimeUpdates = named(kept[i])]]

\* positions.map(...) of pollAndStoreVehicles
ToDbVehicle(v) ==
    LET staticDirection == getDirectionForTrip(v.tripId)
        rawDirection == IF v.directionId # NULL THEN v.directionId ELSE staticDirection
    IN [vehicle_id |-> v.vehicleId, trip_id |-> v.tripId,
        direction |-> IF rawDirection # NULL
                      THEN [dir |-> IF rawDirection.dir = 0 THEN 1 ELSE 2] ELSE NULL,
        latitude |-> v.latitude, longitude |-> v.longitude,
        delay_seconds |-> v.delaySeconds]

\* the sorted, joined `id:lat:lon:delay` strings
Fingerprint(vehicles) ==
    {<<v.vehicle_id, v.latitude, v.longitude, v.delay_seconds>> : v \in Range(vehicles)}

\* What the two feeds may hold: entities of any dataset version, with and
\* without trip, position and stop ids, each after an entity of version 2.
VehicleEntities ==
    {[FeedVehicle(1) EXCEPT !.routeId = RouteIdOf(r), !.tripId = TripIdOf(t, 1),
                            !.trip = hasTrip, !.position = hasPosition] :
        r \in 0..2, t \in 0..2, hasTrip \in BOOLEAN, hasPosition \in BOOLEAN}
VehicleFeeds ==
    {<<[FeedVehicle(2) EXCEPT !.vehicleId = "bus2"], e>> : e \in VehicleEntities}
\* One vehicle of a known route: its trip in either direction of the
\* snapshot or in none, the feed's direction_id 0, 1 or not a number.
DirectionFeeds ==
    {<<[FeedVehicle(1) EXCEPT !.tripId = tripId, !.directionId = directionId]>> :
        tripId \in {TripIdOf(1, 1), TripIdOf(1, 2), TripIdOf(0, 1)},
        directionId \in {NULL, [dir |-> 0], [dir |-> 1]}}
FeedStops ==
    {<<>>,
     <<StopTimeUpdate(NULL, 1, 100, 0, NoTime)>>,
     <<StopTimeUpdate(RtStop(1), 1, 100, 0, NoTime)>>,
     <<StopTimeUpdate(NULL, 1, 100, 0, NoTime), StopTimeUpdate(RtStop(2), 2, 100, 0, NoTime)>>}
TripEntities ==
    {[FeedTripUpdate(RouteIdOf(r), TripIdOf(t, 1), stops) EXCEPT !.trip = hasTrip] :
        r \in 0..2, t \in 0..2, stops \in FeedStops, hasTrip \in BOOLEAN}
TripFeeds ==
    {<<FeedTripUpdate(RouteIdOf(2), TripIdOf(2, 2), <<StopTimeUpdate(RtStop(3), 1, 100, 0, NoTime)>>), e>> :
             e \in TripEntities}

\* ------------------------------------------------------------ db.ts
\* PRIMARY KEY of the vehicles table, and of the stop_times table
VehicleKey(v) == v.vehicle_id
StopTimeKey(st) == <<st.trip_id, st.stop_id>>

\* The first row of the list whose primary key an earlier row has: the
\* stmt.run() that throws SQLITE_CONSTRAINT_PRIMARYKEY.  0 when there is none.
FirstClash(rows, Key(_)) ==
    LET clashes == {i \in DOMAIN rows : \E j \in 1..(i - 1) : Key(rows[j]) = Key(rows[i])}
    IN IF clashes = {} THEN 0 ELSE CHOOSE i \in clashes : \A j \in clashes : i <= j

\* `db.transaction(() => { DELETE; for (...) stmt.run(...) })()`: the function
\* runs between BEGIN and COMMIT; when it throws, the transaction is rolled
\* back and the exception goes on to the caller.  Without the wrapper the
\* DELETE and the rows inserted before the throw would stay.
Unwrapped(table, rows, clash) ==
    [threw |-> clash # 0,
     table |-> IF clash = 0 THEN rows ELSE SubSeq(rows, 1, clash - 1)]
Transaction(table, rows, clash) ==
    [threw |-> clash # 0,
     table |-> IF clash = 0 THEN rows ELSE table]
replaceVehicles(table, vehicles) ==
    Transaction(table, vehicles, FirstClash(vehicles, VehicleKey))
replaceStopTimes(table, stopTimes) ==
    Transaction(table, stopTimes, FirstClash(stopTimes, StopTimeKey))

\* What the feeds may hold when rows are stored: feeds whose rows are all
\* distinct, and feeds in which two rows have the same primary key (one
\* vehicle id in two entities, one stop twice in a trip, one trip in two
\* entities).
StoreVehicleFeeds ==
    LET bus(id, lat) == [FeedVehicle(1) EXCEPT !.vehicleId = id, !.latitude = lat]
    IN {<<>>, <<bus("bus1", 1)>>, <<bus("bus1", 1), bus("bus2", 1)>>,
        <<bus("bus1", 1), bus("bus1", 2)>>,
        <<bus("bus2", 2), bus("bus1", 2), bus("bus2", 3)>>}
StoreTripFeeds ==
    LET stu(k, seq) == StopTimeUpdate(RtStop(k), seq, 300, 0, NoTime)
        trip(stops) == FeedTripUpdate(RouteIdOf(1), TripIdOf(1, 1), stops)
    IN {<<>>, <<trip(<<stu(1, 1)>>)>>, <<trip(<<stu(1, 1), stu(2, 2)>>)>>,
        <<trip(<<stu(1, 1), stu(2, 2), stu(1, 3)>>)>>,
        <<trip(<<stu(1, 1)>>), trip(<<stu(1, 1)>>)>>}

\* ------------------------------------------------------------ routes/sse.ts
\* buildVehiclesPayload() over the rows of the vehicles table
buildVehiclesPayload(rows) ==
    [i \in DOMAIN rows |->
        [vehicleId |-> rows[i].vehicle_id, tripId |-> rows[i].trip_id,
         latitude |-> rows[i].latitude, longitude |-> rows[i].longitude,
         direction |-> rows[i].direction, delaySeconds |-> rows[i].delay_seconds]]

\* `routeData?.stops?.route || { direction1: [], direction2: [] }`
Undefined == [undefined |-> TRUE]
Thrown == [thrown |-> "TypeError"]
NoStops == [direction1 |-> <<>>, direction2 |-> <<>>]
OrUndefined(value, otherwise) == value
OrElse(value, otherwise) == IF value = Undefined THEN otherwise ELSE value
RouteStops == OrElse(IF routeData = NULL THEN Undefined ELSE routeData.stops.route, NoStops)

\* buildRoutePayload(): the stops and the primary shapes of the loaded route
\* data; reading a property of undefined throws
buildRoutePayload ==
    LET shapes == getPrimaryShapes
        stops == RouteStops
    IN IF stops = Undefined THEN Thrown
       ELSE [direction1 |-> [stops |-> stops.direction1, shape |-> shapes.direction1],
             direction2 |-> [stops |-> stops.direction2, shape |-> shapes.direction2]]

\* What is written to a response: `event: init`, `event: vehicles`, `:heartbeat`
InitEvent(rows) ==
    [type |-> "init", vehicles |-> buildVehiclesPayload(rows), route |-> buildRoutePayload,
     stale |-> FALSE]
VehiclesEvent(rows) ==
    [type |-> "vehicles", vehicles |-> buildVehiclesPayload(rows), stale |-> FALSE]
HeartbeatEvent == [type |-> "heartbeat"]

\* the writes of the handler before it registers its listener
OnConnectNothing(rows) == <<>>
OnConnect(rows) == IF buildRoutePayload = Thrown THEN <<>> ELSE <<InitEvent(rows)>>

\* ------------------------------------------------------------ routes/vehicles.ts
\* GET /api/vehicles: the cached vehicles with their display direction, the
\* stops and shapes of the route; a handler that throws is answered with 500.
DisplayDirectionOrZero(v) ==
    LET rawDirection == IF v.directionId # NULL THEN v.directionId ELSE [dir |-> 0]
    IN [dir |-> IF rawDirection.dir = 0 THEN 1 ELSE 2]
DisplayDirection(v) ==
    LET rtDirection == v.directionId
        staticDirection == getDirectionForTrip(v.tripId)
        rawDirection == IF rtDirection # NULL THEN rtDirection ELSE staticDirection
    IN IF rawDirection # NULL THEN [dir |-> IF rawDirection.dir = 0 THEN 1 ELSE 2] ELSE NULL
VehiclesResponse ==
    LET cached == cachedVehicles
        vehicles == [i \in DOMAIN cached.data |->
                        [vehicleId |-> cached.data[i].vehicleId,
                         tripId |-> cached.data[i].tripId,
                         latitude |-> cached.data[i].latitude,
                         longitude |-> cached.data[i].longitude,
                         direction |-> DisplayDirection(cached.data[i]),
                         delaySeconds |-> cached.data[i].delaySeconds]]
        route == buildRoutePayload
    IN IF route = Thrown THEN [status |-> 500]
       ELSE [status |-> 200,
             body |-> [vehicles |-> vehicles, route |-> route, stale |-> cached.stale]]
ReqInit == vehiclesRes = [served |-> 0, res |-> NULL]
GetVehicles ==
    /\ mainPc = "running"
    /\ vehiclesRes.served < MaxRequests
    /\ vehiclesRes' = [served |-> vehiclesRes.served + 1, res |-> VehiclesResponse]
    /\ UNCHANGED <<pollVars, refreshVars, mergeVars, tripVars, liveVars, clientVars>>

\* `if (fingerprint !== lastVehicleFingerprint)`
FingerprintAny(fingerprint) == TRUE
FingerprintDiffers(fingerprint) == fingerprint # lastVehicleFingerprint

\* vehicleEventBus.emit('vehicles:updated'): every listener runs at once, in
\* the order of registration; onUpdate writes to its response.
Emit(event) ==
    conns' = [c \in DOMAIN conns |->
                 IF c \in Range(listeners)
                 THEN [conns[c] EXCEPT !.log = Append(@, event)]
                 ELSE conns[c]]

\* the events written so far, all connections together
Written == SumOver([c \in DOMAIN conns |-> Len(conns[c].log)], DOMAIN conns)

LiveInit ==
    /\ conns = <<>>
    /\ listeners = <<>>
    /\ heartbeats = {}
    /\ pubPrint = {}
liveRest == <<pollVars, refreshVars, mergeVars, tripVars, clientVars, reqVars>>

\* GET /api/sse: the handler, start to end.
Connect ==
    /\ Len(conns) < MaxConns
    /\ Written < MaxEvents
    /\ conns' = Append(conns, [open |-> TRUE, log |-> OnConnect(dbVehicles)])
    /\ listeners' = Append(listeners, Len(conns) + 1)
    /\ heartbeats' = heartbeats \cup {Len(conns) + 1}
    /\ UNCHANGED <<pubPrint, liveRest>>

\* the 25 s interval of connection c fires
Heartbeat(c) ==
    /\ c \in heartbeats
    /\ Written < MaxEvents
    /\ conns' = [conns EXCEPT ![c].log = Append(@, HeartbeatEvent)]
    /\ UNCHANGED <<listeners, heartbeats, pubPrint, liveRest>>

\* `vehicleEventBus.off('vehicles:updated', onUpdate)`
StaySubscribed(c) == listeners
Unsubscribe(c) == SelectSeq(listeners, LAMBDA l : l # c)

\* req 'close' of connection c
Close(c) ==
    /\ c \in DOMAIN conns
    /\ conns[c].open
    /\ conns' = [conns EXCEPT ![c].open = FALSE]
    /\ listeners' = Unsubscribe(c)
    /\ heartbeats' = heartbeats \ {c}
    /\ UNCHANGED <<pubPrint, liveRest>>

\* A vehicle timer fires: pollAndStoreVehicles() sets the busy flag and
\* suspends in fetchVehiclePositions().
CollectorBegin ==
    /\ cPc = "timer"
    /\ IF cBusy THEN UNCHANGED <<cPc, cBusy>> ELSE cPc' = "fetch" /\ cBusy' = TRUE
    /\ UNCHANGED <<mainPc, upVersion, fsVars, snapVars, stopIdCache, refreshInProgress,
                   running, cBackoff, consecutiveEmptyPolls, gtfsRefreshInProgress,
                   lastVehicleFingerprint, dbVehicles, proactive, emptyRun, staleTriggers,
                   lastCall>>
    /\ Quiet

\* The fetch returns `feed`: the try block of pollAndStoreVehicles, at
\* Amsterdam hour `hour`.
CollectorOk(feed, hour) ==
    /\ cPc = "fetch"
    /\ LET positions == fetchVehiclePositions(feed)
           vehicles == [i \in DOMAIN positions |-> ToDbVehicle(positions[i])]
           empty == Len(vehicles) = 0 /\ isDuringOperatingHours(hour)
           reached == empty /\ ThresholdReached(consecutiveEmptyPolls + 1)
       IN /\ empty => emptyRun < MaxEmptyRun
          /\ ~replaceVehicles(dbVehicles, vehicles).threw
          /\ dbVehicles' = replaceVehicles(dbVehicles, vehicles).table
          /\ IF FingerprintDiffers(Fingerprint(vehicles))
             THEN /\ lastVehicleFingerprint' = Fingerprint(vehicles)
                  /\ Emit(VehiclesEvent(vehicles))
                  /\ pubPrint' = Fingerprint(vehicles)
             ELSE UNCHANGED <<lastVehicleFingerprint, conns, pubPrint>>
          /\ UNCHANGED <<listeners, heartbeats>>
          /\ cBackoff' = vehiclePollInterval
          /\ consecutiveEmptyPolls' =
                IF empty THEN (IF reached THEN 0 ELSE consecutiveEmptyPolls + 1)
                ELSE IF Len(vehicles) > 0 THEN 0 ELSE consecutiveEmptyPolls
          /\ emptyRun' = IF empty THEN emptyRun + 1
                         ELSE IF Len(vehicles) > 0 THEN 0 ELSE emptyRun
          /\ staleTriggers' = IF reached THEN staleTriggers + 1
                              ELSE IF Len(vehicles) > 0 THEN 0 ELSE staleTriggers
          /\ IF reached THEN triggerGtfsRefresh
             ELSE lastTrigger' = "none" /\ UNCHANGED <<gtfsRefreshInProgress, refreshInProgress, running>>
    /\ cBusy' = FALSE
    /\ cPc' = "timer"
    /\ UNCHANGED <<mainPc, upVersion, fsVars, snapVars, stopIdCache, proactive, lastCall>>
    /\ lastLookup' = NoCall

\* The fetch throws: the catch block.
CollectorFailResets ==
    /\ cPc = "fetch"
    /\ cBackoff < vehiclePollInterval * Pow2(MaxCollectorFails)
    /\ cBackoff' = Doubled(cBackoff)
    /\ cBusy' = FALSE
    /\ cPc' = "timer"
    /\ consecutiveEmptyPolls' = 0
    /\ UNCHANGED <<mainPc, upVersion, fsVars, snapVars, stopIdCache, refreshInProgress,
                   running, gtfsRefreshInProgress,
                   lastVehicleFingerprint, dbVehicles, proactive, emptyRun, staleTriggers,
                   lastCall>>
    /\ Quiet
CollectorFail ==
    /\ cPc = "fetch"
    /\ cBackoff < vehiclePollInterval * Pow2(MaxCollectorFails)
    /\ cBackoff' = Doubled(cBackoff)
    /\ cBusy' = FALSE
    /\ cPc' = "timer"
    /\ UNCHANGED <<mainPc, upVersion, fsVars, snapVars, stopIdCache, refreshInProgress,
                   running, consecutiveEmptyPolls, gtfsRefreshInProgress,
                   lastVehicleFingerprint, dbVehicles, proactive, emptyRun, staleTriggers,
                   lastCall>>
    /\ Quiet

\* The fetch returns `feed` and replaceVehicles() throws: the catch block,
\* with nothing of the try block after the store having run.
CollectorStoreFail(feed) ==
    /\ cPc = "fetch"
    /\ cBackoff < vehiclePollInterval * Pow2(MaxCollectorFails)
    /\ LET positions == fetchVehiclePositions(feed)
           vehicles == [i \in DOMAIN positions |-> ToDbVehicle(positions[i])]
       IN /\ replaceVehicles(dbVehicles, vehicles).threw
          /\ dbVehicles' = replaceVehicles(dbVehicles, vehicles).table
    /\ cBackoff' = Doubled(cBackoff)
    /\ cBusy' = FALSE
    /\ cPc' = "timer"
    /\ UNCHANGED <<mainPc, upVersion, fsVars, snapVars, stopIdCache, refreshInProgress,
                   running, consecutiveEmptyPolls, gtfsRefreshInProgress,
                   lastVehicleFingerprint, proactive, emptyRun, staleTriggers, lastCall>>
    /\ Quiet

\* The 24h interval fires: checkGtfsFeedChanged() sends its HEAD request.
ProactiveBegin ==
    /\ mainPc = "running"
    /\ proactive = "idle"
    /\ proactive' = "head"
    /\ UNCHANGED <<mainPc, upVersion, fsVars, snapVars, stopIdCache, refreshInProgress,
                   running, cPc, collVars, gtfsRefreshInProgress, lastCall>>
    /\ Quiet

\* checkGtfsFeedChanged(): the ETag of the response against route.json's
FeedAlwaysChanged(etag) == TRUE
FeedChanged(etag) == ~(routeJson # NoFile /\ routeJson.metadata.gtfsEtag = etag)

\* The HEAD request of the check returns.
ProactiveDone ==
    /\ proactive = "head"
    /\ proactive' = "idle"
    /\ IF FeedChanged(Token(upVersion).etag) THEN triggerGtfsRefresh
       ELSE lastTrigger' = "none" /\ UNCHANGED <<gtfsRefreshInProgress, refreshInProgress, running>>
    /\ UNCHANGED <<mainPc, upVersion, fsVars, snapVars, stopIdCache, cPc, collVars, lastCall>>
    /\ lastLookup' = NoCall

\* The HEAD request of the check throws: logged.
ProactiveFail ==
    /\ proactive = "head"
    /\ proactive' = "idle"
    /\ UNCHANGED <<mainPc, upVersion, fsVars, snapVars, stopIdCache, refreshInProgress,
                   running, cPc, collVars, gtfsRefreshInProgress, lastCall>>
    /\ Quiet

\* ------------------------------------------------------------ index.ts
\* main(): initDb(); await loadRouteData(); with no route data the cold-start
\* refresh is awaited; then startCollector(), startDeparturePolling(), listen.
MainBoot ==
    /\ mainPc = "boot"
    /\ LoadRouteData(routeJson)
    /\ IF routeJson = NoFile
       THEN /\ mainPc' = "coldRefresh"
            /\ IF refreshInProgress THEN UNCHANGED <<refreshInProgress, running>>
               ELSE RefreshEnter("main")
            /\ UNCHANGED cPc
       ELSE /\ mainPc' = "running"
            /\ cPc' = "timer"
            /\ UNCHANGED <<refreshInProgress, running>>
    /\ UNCHANGED <<upVersion, fsVars, stopIdCache, collVars, gtfsRefreshInProgress, proactive,
                   lastCall>>
    /\ Quiet

\* The process is killed and started again: what was in memory is gone, the
\* files of the data volume and the database are as they were left.
Killed ==
    /\ mainPc' = "boot"
    /\ routeData' = NULL
    /\ routeIdSet' = {}
    /\ tripIdSet' = {}
    /\ stopIdCache' = NULL
    /\ refreshInProgress' = FALSE
    /\ running' = <<>>
    /\ cPc' = "off"
    /\ cBusy' = FALSE
    /\ cBackoff' = vehiclePollInterval
    /\ consecutiveEmptyPolls' = 0
    /\ gtfsRefreshInProgress' = FALSE
    /\ lastVehicleFingerprint' = {}
    /\ proactive' = "idle"
    /\ emptyRun' = 0
    /\ staleTriggers' = 0
    /\ lastCall' = NoCall
    /\ UNCHANGED <<upVersion, fsVars, dbVehicles>>
    /\ Quiet

\* A request handler calls lookupStopId(tpc, direction).
LookupArgs == {<<"55230110", 1>>, <<"55230100", 2>>, <<"00000000", 1>>}
Lookup(tpc, direction) ==
    /\ mainPc = "running"
    /\ lookupStopId(tpc, direction)
    /\ UNCHANGED <<mainPc, upVersion, fsVars, snapVars, refreshInProgress, running, cPc,
                   collVars, gtfsRefreshInProgress, proactive, lastCall>>
    /\ lastTrigger' = "none"

\* The upstream publishes the next dataset version: ids and token change.
UpstreamRotate ==
    /\ upVersion < MaxVersions
    /\ upVersion' = upVersion + 1
    /\ UNCHANGED <<mainPc, fsVars, snapVars, stopIdCache, refreshInProgress, running, cPc,
                   collVars, gtfsRefreshInProgress, proactive, lastCall>>
    /\ Quiet

\* The process starts with `file` as route.json on the data volume.
RefreshInit(file) ==
    /\ mainPc = "boot"
    /\ upVersion = 1
    /\ metaFile = NoFile
    /\ zipFile = NoFile
    /\ routeJson = file
    /\ routeTmp = NoFile
    /\ routeData = NULL
    /\ routeIdSet = {}
    /\ tripIdSet = {}
    /\ stopIdCache = NULL
    /\ refreshInProgress = FALSE
    /\ running = <<>>
    /\ cPc = "off"
    /\ cBusy = FALSE
    /\ cBackoff = vehiclePollInterval
    /\ consecutiveEmptyPolls = 0
    /\ gtfsRefreshInProgress = FALSE
    /\ lastVehicleFingerprint = {}
    /\ dbVehicles = <<>>
    /\ proactive = "idle"
    /\ emptyRun = 0
    /\ staleTriggers = 0
    /\ lastTrigger = "none"
    /\ lastCall = NoCall
    /\ lastLookup = NoCall


\* ------------------------------------------------------------ collector: trip updates
TripIdle ==
    /\ tBusy = FALSE
    /\ tBackoff = vehiclePollInterval
    /\ dbStopTimes = <<>>
    /\ tripPoll = NoCall
TripInit ==
    /\ upTrips = TripPayload(<<>>, 0)
    /\ TripIdle
tripRest == <<pollVars, refreshVars, mergeVars, liveVars, clientVars, reqVars>>

\* setTimeout(scheduleTripUpdatePoll) fires: pollAndStoreTripUpdates up to the fetch
TripBegin ==
    /\ cPc # "off"
    /\ ~tBusy
    /\ tBusy' = TRUE
    /\ UNCHANGED <<tBackoff, dbStopTimes, upTrips, tripPoll, tripRest>>

\* The fetch returns `payload.updates` and the clock reads payload.now.
TripOk(payload) ==
    /\ tBusy
    /\ ~replaceStopTimes(dbStopTimes, StopTimeRows(payload.updates, payload.now)).threw
    /\ dbStopTimes' =
          replaceStopTimes(dbStopTimes, StopTimeRows(payload.updates, payload.now)).table
    /\ tBackoff' = vehiclePollInterval
    /\ tBusy' = FALSE
    /\ tripPoll' = payload
    /\ UNCHANGED <<upTrips, tripRest>>

\* The fetch or replaceStopTimes throws: the catch block.
TripFail ==
    /\ tBusy
    /\ tBackoff < vehiclePollInterval * Pow2(MaxCollectorFails)
    /\ tBackoff' = Doubled(tBackoff)
    /\ tBusy' = FALSE
    /\ UNCHANGED <<dbStopTimes, upTrips, tripPoll, tripRest>>

\* The fetch returns `payload.updates` and replaceStopTimes() throws.
TripStoreFail(payload) ==
    /\ tBusy
    /\ tBackoff < vehiclePollInterval * Pow2(MaxCollectorFails)
    /\ replaceStopTimes(dbStopTimes, StopTimeRows(payload.updates, payload.now)).threw
    /\ dbStopTimes' =
          replaceStopTimes(dbStopTimes, StopTimeRows(payload.updates, payload.now)).table
    /\ tBackoff' = Doubled(tBackoff)
    /\ tBusy' = FALSE
    /\ UNCHANGED <<upTrips, tripPoll, tripRest>>

\* ------------------------------------------------------------ routes/departures.ts
Abs(x) == IF x < 0 THEN -x ELSE x

\* Math.round(num / den) for den > 0: halves round up
Round(num, den) == (2 * num + den) \div (2 * den)

\* toLocalTimeString(unixMs): the Amsterdam wall-clock time of the instant
\* (CET, one hour ahead of UTC), as the local second it names
toLocalTimeString(unixMs) == (unixMs \div 1000) + 3600

\* new Date(local).getTime(): milliseconds, the process running in UTC
DateOf(local) == local * 1000

\* getCachedDepartures(tpc): only config.defaultTpc is ever cached
defaultTpc == "55230110"
getCachedDepartures(tpc) == IF tpc = defaultTpc THEN cachedDepartures ELSE NoEntry

\* getArrivalsForStop(stopId)
getArrivalsForStop(stopId) == SelectSeq(realtimeArrivals[stopId], LAMBDA a : ~a.departed)

\* `diff < 10 * 60 * 1000`
WithinToleranceIncl(diff) == diff <= 10 * 60 * 1000
WithinTolerance(diff) == diff < 10 * 60 * 1000

\* diff of the inner loop: |implied schedule of rt - schedule of dep|, in ms
SchedDiff(dep, rt) ==
    Abs(DateOf(toLocalTimeString((rt.arrivalTime - rt.delay) * 1000))
        - DateOf(dep.scheduledDeparture))

\* The inner loop over realtimeArrivals from position k on: the position of
\* bestMatch (0 for null), `best` holding the match and bestDiff so far.
RECURSIVE BestMatch(_, _, _, _)
BestMatch(dep, rts, k, best) ==
    IF k > Len(rts) THEN best.idx
    ELSE LET diff == SchedDiff(dep, rts[k])
         IN IF WithinTolerance(diff) /\ (best.idx = 0 \/ diff < best.diff)
            THEN BestMatch(dep, rts, k + 1, [idx |-> k, diff |-> diff])
            ELSE BestMatch(dep, rts, k + 1, best)
MatchOf(dep, rts) == BestMatch(dep, rts, 1, [idx |-> 0, diff |-> 0])

\* The body of the loop over filteredDepartures: dep after the assignments.
Reconcile(dep, rts) ==
    LET m == MatchOf(dep, rts)
    IN IF m # 0
       THEN LET delayMinutes == Round(rts[m].delay, 60)
            IN [dep EXCEPT !.expectedDeparture = toLocalTimeString(rts[m].arrivalTime * 1000),
                           !.delayMinutes = delayMinutes,
                           !.isDelayed = delayMinutes >= 1,
                           !.source = "realtime"]
       ELSE [dep EXCEPT !.source = "scheduled"]

DefaultDestination(direction) ==
    IF direction = 1 THEN "Amsterdam Elandsgracht" ELSE "Zandvoort Centrum"

\* `if (matchedTripIds.has(rt.tripId)) continue;` of the injection loop
UnclaimedAll(rts, matchedTripIds) == rts
Unclaimed(rts, matchedTripIds) == SelectSeq(rts, LAMBDA rt : rt.tripId \notin matchedTripIds)

\* The departure injected for an arrival whose trip no departure matched.
Injected(rt, direction) ==
    [journeyNumber |-> 0,
     scheduledDeparture |-> toLocalTimeString((rt.arrivalTime - rt.delay) * 1000),
     expectedDeparture |-> toLocalTimeString(rt.arrivalTime * 1000),
     delayMinutes |-> Round(rt.delay, 60),
     status |-> "DRIVING",
     isDelayed |-> rt.delay >= 60,
     destination |-> DefaultDestination(direction),
     lineDirection |-> direction,
     source |-> "realtime"]

\* Array.prototype.sort by expectedDeparture (stable)
RECURSIVE InsertByExpected(_, _)
InsertByExpected(sorted, d) ==
    IF sorted = <<>> THEN <<d>>
    ELSE IF DateOf(Head(sorted).expectedDeparture) <= DateOf(d.expectedDeparture)
         THEN <<Head(sorted)>> \o InsertByExpected(Tail(sorted), d)
         ELSE <<d>> \o sorted
RECURSIVE InsertAll(_)
InsertAll(q) ==
    IF q = <<>> THEN <<>>
    ELSE InsertByExpected(InsertAll(SubSeq(q, 1, Len(q) - 1)), q[Len(q)])
\* the list as pushed, and the list sorted
Unsorted(q) == q
SortByExpected(q) == InsertAll(q)

\* ------------------------------------------------------------ services/ovapi.ts
\* config.dataOwnerCode of the filter (the config module lists the value as
\* operatorCode) and config.linePublicNumber
dataOwnerCode == "CXX"
linePublicNumber == "80"

\* One pass of the OVapi answer; target and expected are local seconds.
OvApiPass(owner, planning, journey, target, expected, direction) ==
    [DataOwnerCode |-> owner, LinePublicNumber |-> "80", LinePlanningNumber |-> planning,
     TransportType |-> "BUS", JourneyNumber |-> journey,
     TargetDepartureTime |-> target, ExpectedDepartureTime |-> expected,
     TripStopStatus |-> "PLANNED",
     DestinationName50 |-> IF direction = 1 THEN "Amsterdam Elandsgracht" ELSE "Zandvoort Centrum",
     LineDirection |-> direction]

\* the four `continue` filters of the loop over the passes
PassKeptAnyOwner(pass) ==
    /\ pass.LinePublicNumber = linePublicNumber
    /\ pass.LinePlanningNumber # "N286"
    /\ pass.TransportType = "BUS"
PassKept(pass) ==
    /\ pass.DataOwnerCode = dataOwnerCode
    /\ pass.LinePublicNumber = linePublicNumber
    /\ pass.LinePlanningNumber # "N286"
    /\ pass.TransportType = "BUS"

\* departures.push({...}) for a kept pass with a scheduled time
PassDeparture(pass) ==
    LET scheduled == pass.TargetDepartureTime
        expected == pass.ExpectedDepartureTime
        scheduledMs == DateOf(scheduled)
        expectedMs == IF expected # NoTime THEN DateOf(expected) ELSE scheduledMs
        delayMinutes == Round(expectedMs - scheduledMs, 60000)
    IN [journeyNumber |-> pass.JourneyNumber,
        scheduledDeparture |-> scheduled,
        expectedDeparture |-> IF expected # NoTime THEN expected ELSE scheduled,
        delayMinutes |-> delayMinutes,
        status |-> pass.TripStopStatus,
        isDelayed |-> delayMinutes >= 1,
        destination |-> pass.DestinationName50,
        lineDirection |-> pass.LineDirection,
        source |-> "unset"]

\* fetchDepartures(tpc) for an answer with these passes
fetchDepartures(passes) ==
    LET kept == SelectSeq(passes, PassKept)
        timed == SelectSeq(kept, LAMBDA pass : pass.TargetDepartureTime # NoTime)
        departures == [i \in DOMAIN timed |-> PassDeparture(timed[i])]
    IN [stop |-> IF kept = <<>> THEN NULL
                 ELSE [name |-> "Halfweg, Station Halfweg-Zwanenbrg", tpc |-> "55230110"],
        departures |-> SortByExpected(departures)]

\* leaveBy of a departure: null, or the local time walkTime minutes earlier
\* The four passes of the fixture of ovapi.test.ts (14:15 expected 14:20,
\* 14:30 on time, a bus of GVB line 22, the night bus at 01:00)
FixturePasses ==
    <<[OvApiPass("CXX", "N080", 201, 51300, 51600, 1) EXCEPT !.TripStopStatus = "DRIVING"],
      OvApiPass("CXX", "N080", 202, 52200, 52200, 2),
      [OvApiPass("GVB", "G022", 999, 53100, 53100, 1) EXCEPT !.LinePublicNumber = "22",
                                                             !.DestinationName50 = "Sloterdijk"],
      OvApiPass("CXX", "N286", 888, 3600, 3600, 1)>>
\* The answers of the timetable source to a direct lookup: no pass, one pass,
\* passes out of order with a night bus and another operator's bus among
\* them, and the fixture.
PassLists ==
    LET late == OvApiPass("CXX", "N080", 4, 3900, NoTime, 1)
        early == OvApiPass("CXX", "N080", 5, 3000, 3090, 1)
        night == OvApiPass("CXX", "N286", 6, 3600, 3600, 1)
        other == OvApiPass("ARR", "N080", 7, 3600, 3600, 2)
    IN {<<>>, <<late>>, <<late, night, other, early>>, FixturePasses}
FetchedLists == {fetchDepartures(passes) : passes \in PassLists}

\* `${lb.getFullYear()}-${pad(lb.getMonth() + 1)}-...:${pad(lb.getSeconds())}`:
\* the fields of the instant in the zone of the process, no zone suffix;
\* toISOString() would give the UTC fields followed by 'Z'
ToISOString(ms) == [at |-> ms \div 1000, suffix |-> "Z"]
LocalFields(ms) == [at |-> ms \div 1000, suffix |-> ""]
LeaveBy(d, walkTime) ==
    IF walkTime <= 0 THEN NULL
    ELSE LET expectedMs == DateOf(d.expectedDeparture)
             leaveByMs == expectedMs - walkTime * 60 * 1000
         IN LocalFields(leaveByMs)

\* The handler from the direction filter on, for `result` (cached or just
\* fetched): the matching loop, the injection loop, the sort, leaveBy and the
\* response.  The departures of a cached result are the cache's own objects:
\* what the matching loop assigns stays in the cache.
Respond(tpc, direction, walkTime, result, stale, cached) ==
    \E rts \in {LET gtfsStopId == StopIdFrom(LookupCache, tpc, direction)
                IN IF gtfsStopId # NULL THEN getArrivalsForStop(gtfsStopId) ELSE <<>>} :
    \E filtered \in {SelectSeq(result.departures, LAMBDA d : d.lineDirection = direction)} :
    \E matched \in {[i \in DOMAIN filtered |-> MatchOf(filtered[i], rts)]} :
    \E after \in {[i \in DOMAIN filtered |-> Reconcile(filtered[i], rts)]} :
    LET all == result.departures
        matchedTripIds == {rts[matched[i]].tripId : i \in {j \in DOMAIN matched : matched[j] # 0}}
        unmatched == Unclaimed(rts, matchedTripIds)
        injected == [i \in DOMAIN unmatched |-> Injected(unmatched[i], direction)]
    IN \E sorted \in {SortByExpected(after \o injected)} :
       LET departures == [i \in DOMAIN sorted |->
                             [d |-> sorted[i], leaveBy |-> LeaveBy(sorted[i], walkTime)]]
       IN /\ lookupStopId(tpc, direction)
          /\ cachedDepartures' =
                IF cached
                THEN [cachedDepartures EXCEPT !.data.departures =
                         [i \in DOMAIN all |-> IF all[i].lineDirection = direction
                                               THEN Reconcile(all[i], rts) ELSE all[i]]]
                ELSE cachedDepartures
          /\ response' = [for |-> tpc,
                          status |-> 200, stop |-> result.stop, direction |-> direction,
                          destination |-> IF departures # <<>>
                                          THEN departures[1].d.destination
                                          ELSE DefaultDestination(direction),
                          walkTimeMinutes |-> walkTime, departures |-> departures,
                          stale |-> stale]
          /\ lastQuery' = [tpc |-> tpc, direction |-> direction, cached |-> cached,
                           sourceA |-> IF cached
                                       THEN SelectSeq(lastResult["departures"].departures,
                                                      LAMBDA d : d.lineDirection = direction)
                                       ELSE filtered,
                           all |-> result.departures, deps |-> filtered, rts |-> rts, matched |-> matched,
                           after |-> after]

pollRest == <<started, busy, backoff, inflight, timers, lastDelay, cachedVehicles,
              realtimeArrivals, recordedJourneys, fails, lastResult, lastOutcome, nskips>>
refreshRest == <<mainPc, upVersion, fsVars, snapVars, refreshInProgress, running, cPc,
                 collVars, gtfsRefreshInProgress, proactive, lastTrigger, lastCall, tripVars, liveVars, clientVars, reqVars>>

\* `getCachedDepartures(tpc)?.stale || false` for a stop with an entry
CachedFresh(tpc) == FALSE
CachedStale(tpc) == getCachedDepartures(tpc).stale

\* GET /api/departures for a stop whose departures are cached.
QueryCached(tpc, direction, walkTime) ==
    /\ getCachedDepartures(tpc) # NoEntry
    /\ Respond(tpc, direction, walkTime, getCachedDepartures(tpc).data, CachedStale(tpc), TRUE)
    /\ UNCHANGED <<pollRest, refreshRest, directOk>>

\* GET /api/departures for a stop with no cache entry: fetchDepartures(tpc)
\* returns `fetched`, stale is false.
QueryFetched(tpc, direction, walkTime, fetched) ==
    /\ getCachedDepartures(tpc) = NoEntry
    /\ Respond(tpc, direction, walkTime, fetched, FALSE, FALSE)
    /\ directOk' = directOk \cup {tpc}
    /\ UNCHANGED <<pollRest, refreshRest>>

\* ... and fetchDepartures(tpc) throws: the catch block answers 500.
QueryFailed(tpc) ==
    /\ getCachedDepartures(tpc) = NoEntry
    /\ response' = [for |-> tpc, status |-> 500, error |-> "Failed to fetch departures"]
    /\ lastQuery' = NoCall
    /\ lastLookup' = NoCall
    /\ UNCHANGED <<pollVars, refreshRest, stopIdCache, directOk>>

MergeInit == response = NoCall /\ lastQuery = NoCall /\ directOk = {}

\* ------------------------------------------------------------ readers of the caches
\* The stale flag a reader of feed f's cache gets: getCachedVehicles().stale,
\* getCachedDepartures(tpc)?.stale || false.  getArrivalsForStop() returns the
\* arrivals alone: realtimeArrivals carries no stale field.
FeedStale(f) ==
    CASE f = "vehicles" -> cachedVehicles.stale
      [] f = "departures" -> (cachedDepartures # NoEntry /\ cachedDepartures.stale)
      [] OTHER -> FALSE

\* What the cache of feed f holds of a fetched result.
ResultData(f, result) == IF f = "tripUpdates" THEN StoreArrivals(result) ELSE result
\* Whether feed f has cached data at all, and the data.
HasCache(f) == f = "departures" => cachedDepartures # NoEntry
CacheData(f) ==
    CASE f = "vehicles" -> cachedVehicles.data
      [] f = "departures" -> cachedDepartures.data
      [] OTHER -> realtimeArrivals

\* ------------------------------------------------------------ hooks/useVehicles.ts
\* One mounted page.  Every action is one callback of the hook: an event of
\* the EventSource, a timer, a visibility change.  What arrives on the
\* channel is up to the network: any of init, vehicles and error, in any
\* order, on an EventSource that is not closed.
\* Date.now() at the mount: an epoch time, far beyond STALE_THRESHOLD
PageLoad == 20 * STALE_THRESHOLD

\* new EventSource(...) and its setTimeout(..., SSE_INIT_TIMEOUT)
NewSource == [closed |-> FALSE, initTimeout |-> "armed", openedAt |-> dateNow]

\* es.close()
Closed(srcs, es) == [srcs EXCEPT ![es].closed = TRUE]

\* clearTimeout(initTimeout): nothing to clear once it has fired
Cleared(srcs, es) ==
    IF srcs[es].initTimeout = "armed" THEN [srcs EXCEPT ![es].initTimeout = "cleared"]
    ELSE srcs

\* the error events after which no init event and no reopen has come
Forgiven(log) == [i \in DOMAIN log |-> [log[i] EXCEPT !.reset = TRUE]]

\* startPolling(): the interval it sets is never cleared, the function it
\* returns is dropped by both callers
startPolling ==
    IF pollingRef THEN UNCHANGED <<pollingRef, connectionStatus>>
    ELSE pollingRef' = TRUE /\ connectionStatus' = "polling"

\* connectSSE()
connectSSE ==
    /\ sources' = Append(IF esRef # 0 THEN Closed(sources, esRef) ELSE sources, NewSource)
    /\ failTimesRef' = <<>>
    /\ esRef' = Len(sources) + 1
    /\ connectionStatus' = "connecting"
    /\ errLog' = Forgiven(errLog)
    /\ UNCHANGED <<pollingRef, dateNow, initSeen>>

\* the state after the first render and its effect: fetchVehicles(); connectSSE()
ClientInit ==
    /\ dateNow = PageLoad
    /\ connectionStatus = "connecting"
    /\ esRef = 1
    /\ sources = <<[closed |-> FALSE, initTimeout |-> "armed", openedAt |-> PageLoad]>>
    /\ failTimesRef = <<>>
    /\ pollingRef = FALSE
    /\ errLog = <<>>
    /\ initSeen = {}
clientRest == <<pollVars, refreshVars, mergeVars, tripVars, liveVars, reqVars>>

\* the sources events still arrive on
Live == {es \in DOMAIN sources : ~sources[es].closed}

\* a timeout that is due runs before anything later does
Due(es) ==
    sources[es].initTimeout = "armed" /\ dateNow >= sources[es].openedAt + SSE_INIT_TIMEOUT
NoneDue == \A es \in DOMAIN sources : ~Due(es)

\* es 'init' (the payload parses)
OnInit(es) ==
    /\ es \in Live
    /\ NoneDue
    /\ sources' = Cleared(sources, es)
    /\ connectionStatus' = "connected"
    /\ failTimesRef' = <<>>
    /\ errLog' = Forgiven(errLog)
    /\ initSeen' = initSeen \cup {es}
    /\ UNCHANGED <<esRef, pollingRef, dateNow, clientRest>>

\* es 'vehicles'
OnVehicles(es) ==
    /\ es \in Live
    /\ NoneDue
    /\ connectionStatus' = "connected"
    /\ UNCHANGED <<esRef, sources, failTimesRef, pollingRef, dateNow, errLog, initSeen,
                   clientRest>>

\* `failTimesRef.current.length >= MAX_RAPID_FAILURES`
OneFailure(n) == n >= 1
TooManyFailures(n) == n >= MAX_RAPID_FAILURES

\* es.onerror
OnError(es) ==
    /\ es \in Live
    /\ NoneDue
    /\ Len(errLog) < MaxErrors
    /\ LET recent == SelectSeq(Append(failTimesRef, dateNow),
                               LAMBDA t : dateNow - t < RAPID_FAILURE_WINDOW)
       IN /\ failTimesRef' = recent
          /\ IF TooManyFailures(Len(recent))
             THEN /\ sources' = Closed(Cleared(sources, es), es)
                  /\ esRef' = 0
                  /\ startPolling
             ELSE /\ sources' = Cleared(sources, es)
                  /\ connectionStatus' = "reconnecting"
                  /\ UNCHANGED <<esRef, pollingRef>>
    /\ errLog' = Append(errLog, [at |-> dateNow, reset |-> FALSE])
    /\ UNCHANGED <<dateNow, initSeen, clientRest>>

\* `if (esRef.current === es)` of the timeout callback
IsCurrent(es) == esRef = es

\* the init timeout of es fires
OnInitTimeout(es) ==
    /\ es \in DOMAIN sources
    /\ Due(es)
    /\ IF IsCurrent(es)
       THEN /\ sources' = [Closed(sources, es) EXCEPT ![es].initTimeout = "fired"]
            /\ esRef' = 0
            /\ startPolling
       ELSE /\ sources' = [sources EXCEPT ![es].initTimeout = "fired"]
            /\ UNCHANGED <<esRef, pollingRef, connectionStatus>>
    /\ UNCHANGED <<failTimesRef, dateNow, errLog, initSeen, clientRest>>

\* `&& esRef.current` of onVisibilityChange
AnyChannel == TRUE
HasChannel == esRef # 0

\* onVisibilityChange with the page visible.  The effect runs once (its only
\* dependency, connectSSE, never changes), so the handler reads the
\* lastUpdateTime of the first render, 0.
onVisibilityChange ==
    /\ Len(sources) < MaxSources
    /\ NoneDue
    /\ dateNow - 0 > STALE_THRESHOLD
    /\ HasChannel
    /\ connectSSE
    /\ UNCHANGED clientRest

\* time passes
Tick ==
    /\ NoneDue
    /\ dateNow + 2500 <= PageLoad + MaxSeconds * 1000
    /\ dateNow' = dateNow + 2500
    /\ UNCHANGED <<connectionStatus, esRef, sources, failTimesRef, pollingRef, errLog,
                   initSeen, clientRest>>


\* ------------------------------------------------------------ claims: polling

\* C1: per feed at most one poll is in flight, and it is in flight exactly
\* while the busy flag is set; a poll begins only when no poll of that feed is
\* in flight and the flag is clear; a trigger that finds the flag set changes
\* no cache, no backoff value and no counter, and starts nothing.
C1_State == \A f \in Feeds : inflight[f] <= 1 /\ (busy[f] <=> inflight[f] = 1)
C1_Step ==
    /\ \A f \in Feeds : inflight'[f] > inflight[f] => (~busy[f] /\ inflight[f] = 0)
    /\ nskips' # nskips =>
          /\ UNCHANGED <<cachedVehicles, cachedDepartures, realtimeArrivals, backoff, fails>>
          /\ \A f \in Feeds : busy[f] => (busy'[f] /\ inflight'[f] = inflight[f])
C1_OnePollInFlight == [](C1_State) /\ [][C1_Step]_vars
C1_Witness == nskips > 0 /\ \E f \in Feeds : busy[f] /\ inflight[f] = 1 /\ timers[f] > 0

\* C2: the delay given to the timer that a completed poll arms is the feed's
\* backoff: min(initial * 2^N, 5 minutes) after N consecutive failed polls,
\* and the initial interval after a successful one.
C2_BackoffDelay ==
    \A f \in Feeds : lastOutcome[f] # "none" =>
        /\ lastDelay[f] = Min(InitialInterval(f) * Pow2(fails[f]), 5 * 60 * 1000)
        /\ lastDelay[f] = backoff[f]
        /\ lastOutcome[f] = "ok" => lastDelay[f] = InitialInterval(f)
        /\ timers[f] + inflight[f] = started
C2_Witness ==
    \E f \in Feeds : /\ fails[f] = 5 /\ lastDelay[f] = 300000 /\ timers[f] > 0
                     /\ InitialInterval(f) * Pow2(fails[f]) > 300000

\* C3 (as claimed): for every feed a successful poll leaves the cache holding
\* the poll's result, not stale; a failed poll leaves the cached data as it
\* was and flags it stale.
C3_State ==
    \A f \in Feeds :
        /\ lastOutcome[f] = "ok" => (CacheData(f) = ResultData(f, lastResult[f]) /\ ~FeedStale(f))
        /\ (lastOutcome[f] = "fail" /\ HasCache(f)) => FeedStale(f)
C3_Step ==
    \A f \in Feeds :
        (fails'[f] > fails[f] /\ HasCache(f)) => (HasCache(f)' /\ CacheData(f)' = CacheData(f))
C3_CacheOnSuccessAndFailure == [](C3_State) /\ [][C3_Step]_vars

\* ------------------------------------------------------------ staleness and refresh
\* the operating window as claimed: Amsterdam hour 6 or later, or hour 0
InWindow(hour) == hour >= 6 \/ hour = 0

\* C4: with threshold K = stalenessThreshold, the counter of consecutive
\* zero-vehicle polls always equals the number of in-window zero-vehicle polls
\* since the last poll with vehicles, modulo K, and the staleness trigger has
\* fired once per K of them: the K-th such poll triggers one refresh and
\* resets the counter, and a poll outside the window never increments it.
C4_State ==
    /\ consecutiveEmptyPolls = emptyRun % stalenessThreshold
    /\ staleTriggers = emptyRun \div stalenessThreshold
C4_Step ==
    /\ staleTriggers' > staleTriggers =>
          (consecutiveEmptyPolls = stalenessThreshold - 1 /\ consecutiveEmptyPolls' = 0
           /\ staleTriggers' = staleTriggers + 1 /\ lastTrigger' # "none")
    /\ consecutiveEmptyPolls' > consecutiveEmptyPolls =>
          (emptyRun' = emptyRun + 1 /\ dbVehicles' = <<>>)
C4_StalenessThreshold == [](C4_State) /\ [][C4_Step]_vars
C4_Witness ==
    /\ emptyRun = stalenessThreshold + 1
    /\ consecutiveEmptyPolls = 1
    /\ staleTriggers = 1

\* C5: at most one doRefresh is in progress, whoever asked for it; a refresh
\* starts only when none is in progress; a trigger that arrives while one is
\* in progress is dropped: it changes neither the refresh in progress nor the
\* files nor the snapshot, and when that refresh ends nothing is left to run.
C5_State ==
    /\ Len(running) <= 1
    /\ (Len(running) = 1) <=> refreshInProgress
    /\ \A i \in DOMAIN running : running[i].by = "trigger" <=> gtfsRefreshInProgress
    /\ running = <<>> => ~gtfsRefreshInProgress
C5_Step ==
    /\ Len(running') > Len(running) =>
          /\ running = <<>> /\ ~refreshInProgress /\ ~gtfsRefreshInProgress
          /\ lastTrigger' = "started" \/ mainPc = "boot"
    /\ (lastTrigger' # "none" /\ running # <<>>) =>
          /\ lastTrigger' = "dropped"
          /\ UNCHANGED <<running, refreshInProgress, gtfsRefreshInProgress, fsVars, snapVars,
                         stopIdCache, lastCall>>
    /\ Len(running') < Len(running) => (running' = <<>> /\ lastTrigger' = "none")
C5_SingleRefresh == [](C5_State) /\ [][C5_Step]_vars
C5_Witness == lastTrigger = "dropped" /\ Len(running) = 1 /\ refreshInProgress

\* C6: the snapshot and the two id sets derived from it are always of the
\* same version: the sets hold exactly the route and trip ids of routeData.
C6_SnapshotConsistent ==
    IF routeData = NULL THEN routeIdSet = {} /\ tripIdSet = {}
    ELSE routeIdSet = Range(routeData.routeIds) /\ tripIdSet = Range(routeData.tripIds)
C6_Witness ==
    /\ routeData # NULL
    /\ lastCall # NoCall /\ lastCall.installed
    /\ routeIdSet = {RouteIdOf(2)}
    /\ dbVehicles # <<>>

\* C7: when refreshGtfsData is called again after a call that returned true
\* and the upstream version token has not changed since that call began, the
\* second call replaces nothing and returns false; a call returns true exactly
\* when it replaced the snapshot.
C7_RefreshIdempotent ==
    lastCall # NoCall =>
        /\ lastCall.ret <=> lastCall.installed
        /\ lastCall.afterTrue => (~lastCall.ret /\ ~lastCall.installed)
C7_Witness ==
    /\ lastCall # NoCall /\ lastCall.afterTrue /\ ~lastCall.ret
    /\ routeData # NULL /\ routeData.metadata.gtfsEtag = Token(upVersion).etag
    /\ metaFile = Token(upVersion)

\* C8: outside the turn of the event loop in which a refresh replaces the
\* snapshot, the stop-id bridge is either absent or the one built from the
\* snapshot now loaded, and every lookup is answered from the current
\* snapshot.
C8_State ==
    /\ (NoMicrotask /\ stopIdCache # NULL) => stopIdCache.map = buildStopIdCache(routeData)
    /\ lastLookup # NoCall =>
          lastLookup.got = StopIdFrom(buildStopIdCache(routeData), lastLookup.tpc,
                                      lastLookup.direction)
C8_Step ==
    (\E i \in DOMAIN running : running[i].pc = "loaded") =>
        (NoMicrotask' /\ stopIdCache' = NULL /\ lastLookup' = NoCall)
C8_BridgeInvalidated == [](C8_State) /\ [][C8_Step]_vars
C8_Witness ==
    /\ lastLookup # NoCall /\ lastLookup.got = StopIdOf(2, 1)
    /\ lastCall # NoCall /\ lastCall.installed

\* ------------------------------------------------------------ reconciliation
\* the implied schedule of a prediction and the schedule of a departure, both
\* as Amsterdam local seconds, and their distance
ImpliedLocal(rt) == rt.arrivalTime - rt.delay + 3600
Distance(dep, rt) == Abs(ImpliedLocal(rt) - dep.scheduledDeparture)
\* the active predictions less than 10 minutes from dep
Candidates(dep, rts) == {k \in DOMAIN rts : Distance(dep, rts[k]) < 10 * 60}

\* C9 (as claimed): in one reconciliation no realtime prediction is matched
\* by two different departures.
C9_NoPredictionClaimedTwice ==
    lastQuery # NoCall =>
        \A i, j \in DOMAIN lastQuery.matched :
            (i # j /\ lastQuery.matched[i] # 0) => lastQuery.matched[i] # lastQuery.matched[j]

\* C10: every filtered departure with an active prediction less than 10
\* minutes from its schedule leaves the reconciliation with source "realtime",
\* the local arrival time of a closest such prediction as its expected time and
\* that prediction's delay (in rounded minutes) as its delay; a departure with
\* no prediction that near is marked "scheduled" and keeps its times.
C10_ClosestWithinTolerance ==
    lastQuery # NoCall =>
        \A i \in DOMAIN lastQuery.deps :
            LET dep == lastQuery.deps[i]
                out == lastQuery.after[i]
                rts == lastQuery.rts
                near == Candidates(dep, rts)
            IN /\ \A k \in DOMAIN rts : ~rts[k].departed
               /\ out.scheduledDeparture = dep.scheduledDeparture
               /\ IF near # {}
                  THEN /\ out.source = "realtime"
                       /\ \E k \in near :
                             /\ \A j \in near : Distance(dep, rts[k]) <= Distance(dep, rts[j])
                             /\ out.expectedDeparture = rts[k].arrivalTime + 3600
                             /\ out.delayMinutes = Round(rts[k].delay, 60)
                  ELSE /\ out.source = "scheduled"
                       /\ out.expectedDeparture = dep.expectedDeparture
                       /\ out.delayMinutes = dep.delayMinutes
C10_Witness ==
    /\ lastQuery # NoCall
    /\ \E i \in DOMAIN lastQuery.deps :
          /\ Cardinality(Candidates(lastQuery.deps[i], lastQuery.rts)) = 1
          /\ \E k \in DOMAIN lastQuery.rts :
                Distance(lastQuery.deps[i], lastQuery.rts[k]) = 10 * 60
          /\ lastQuery.after[i].source = "realtime"
          /\ lastQuery.after[i].expectedDeparture # lastQuery.deps[i].expectedDeparture

\* C11: a scheduled departure that no prediction matched is returned with the
\* expected time, delay and delayed flag the timetable source last delivered
\* for it and with source "scheduled", whatever queries and polls came before.
C11_UnmatchedKeepsSourceA ==
    lastQuery # NoCall =>
        \A i \in DOMAIN lastQuery.after :
            lastQuery.matched[i] = 0 =>
                /\ lastQuery.after[i].source = "scheduled"
                /\ lastQuery.after[i].expectedDeparture = lastQuery.sourceA[i].expectedDeparture
                /\ lastQuery.after[i].delayMinutes = lastQuery.sourceA[i].delayMinutes
                /\ lastQuery.after[i].isDelayed = lastQuery.sourceA[i].isDelayed

\* The predictions the index holds for the stop the last request resolved,
\* the trips its matching loop claimed, and the positions of the predictions
\* that are active and unclaimed.
C12_Predictions ==
    IF lastLookup.got = NULL THEN <<>> ELSE realtimeArrivals[lastLookup.got]
C12_Claimed ==
    {lastQuery.rts[lastQuery.matched[i]].tripId :
        i \in {j \in DOMAIN lastQuery.matched : lastQuery.matched[j] # 0}}
C12_Open ==
    {k \in DOMAIN C12_Predictions :
        ~C12_Predictions[k].departed /\ C12_Predictions[k].tripId \notin C12_Claimed}
C12_Synthesized == {i \in DOMAIN response.departures : response.departures[i].d.journeyNumber = 0}
C12_Same(d, rt) ==
    /\ d.expectedDeparture = rt.arrivalTime + 3600
    /\ d.scheduledDeparture = rt.arrivalTime - rt.delay + 3600
    /\ d.delayMinutes = Round(rt.delay, 60)

C13_Ascending(q) ==
    \A i \in 1..(Len(q) - 1) : DateOf(q[i].expectedDeparture) <= DateOf(q[i + 1].expectedDeparture)

\* C13: the departures of every answered request are in ascending order of
\* expected time, after the overrides and the injections; and the list a
\* direct fetchDepartures() returned is in ascending order of expected time.
C13_SortedByExpected ==
    lastQuery # NoCall =>
        /\ C13_Ascending([i \in DOMAIN response.departures |-> response.departures[i].d])
        /\ ~lastQuery.cached => C13_Ascending(lastQuery.all)
\* a synthesized departure ahead of a timetable one although it was appended
\* after it, and a fetched list whose passes arrived in another order
C13_Witness ==
    /\ lastQuery # NoCall
    /\ \E i, j \in DOMAIN response.departures :
          /\ i < j
          /\ response.departures[i].d.journeyNumber = 0
          /\ response.departures[j].d.journeyNumber # 0
    /\ ~lastQuery.cached
    /\ Len(lastQuery.all) = 2
    /\ lastQuery.all[1].journeyNumber > lastQuery.all[2].journeyNumber

\* C14: a request whose stop lookup misses (lookupStopId returns null, or the
\* index holds no active prediction for the stop) is answered all the same,
\* with exactly the departures of the requested direction as the timetable
\* source delivered them, each with source "scheduled", and nothing synthesized.
C14_LookupMissFallsBack ==
    (lastQuery # NoCall /\ (lastLookup.got = NULL \/ lastQuery.rts = <<>>)) =>
        /\ response.status = 200
        /\ Len(response.departures) = Len(lastQuery.sourceA)
        /\ \A i \in DOMAIN response.departures :
              response.departures[i].d = [lastQuery.sourceA[i] EXCEPT !.source = "scheduled"]

\* ------------------------------------------------------------ claims: departed stops
\* The stops of the trip of a poll, and whether a stop's predicted time
\* (arrival, else departure) is pending at the poll's clock.
StopsOf(payload) ==
    IF payload.updates = <<>> THEN {} ELSE Range(payload.updates[1].stopTimeUpdates)
PredictedTime(stu) == IF stu.arrivalTime # NoTime THEN stu.arrivalTime ELSE stu.departureTime
IsPending(stu, now) == PredictedTime(stu) # NoTime /\ PredictedTime(stu) > now - 60
\* The flags the last stored polls gave the stops equal `should`: the rows
\* of the collector, and the index entries of the polling service (which
\* holds the stops that have a predicted time).
FlagsAre(should(_, _)) ==
    /\ tripPoll # NoCall =>
          /\ Len(dbStopTimes) = Cardinality(StopsOf(tripPoll))
          /\ \A stu \in StopsOf(tripPoll) :
                \E i \in DOMAIN dbStopTimes :
                    /\ dbStopTimes[i].stop_sequence = stu.stopSequence
                    /\ dbStopTimes[i].stop_id = stu.stopId
                    /\ dbStopTimes[i].departed = (IF should(tripPoll, stu) THEN 1 ELSE 0)
    /\ lastOutcome["tripUpdates"] = "ok" =>
          \A stu \in StopsOf(lastResult["tripUpdates"]) :
              realtimeArrivals[stu.stopId] =
                  IF PredictedTime(stu) = NoTime THEN <<>>
                  ELSE <<RealtimeArrival(lastResult["tripUpdates"].updates[1].tripId,
                                         PredictedTime(stu), 0,
                                         should(lastResult["tripUpdates"], stu))>>

\* as claimed: departed iff no stop at or after it is pending
DepartedAsClaimed(payload, stu) ==
    \A t \in StopsOf(payload) :
        t.stopSequence >= stu.stopSequence => ~IsPending(t, payload.now)
\* departed iff no stop up to and including it is pending
DepartedUpTo(payload, stu) ==
    \A t \in StopsOf(payload) :
        t.stopSequence <= stu.stopSequence => ~IsPending(t, payload.now)

\* C15 (as claimed): a stop is marked departed if and only if no stop at an
\* index greater than or equal to its own has a pending time.
C15_DepartedIffNoneAfter == FlagsAre(DepartedAsClaimed)

\* C15 (amended): a stop is marked departed if and only if no stop at an
\* index less than or equal to its own has a pending time (a predicted time
\* later than now minus 60 seconds); the departed stops form a prefix of the
\* sequence ordered by stop sequence.
C15_DepartedPrefix ==
    /\ FlagsAre(DepartedUpTo)
    /\ \A i, j \in DOMAIN dbStopTimes :
          (i < j /\ dbStopTimes[j].departed = 1) => dbStopTimes[i].departed = 1
\* a stored trip with a departed stop, pending stops after it and a stop
\* that is not pending after the first pending one
C15_Witness ==
    /\ tripPoll # NoCall
    /\ Len(dbStopTimes) = 4
    /\ dbStopTimes[1].departed = 1
    /\ dbStopTimes[2].departed = 0
    /\ \E stu \in StopsOf(tripPoll) : stu.stopSequence = 3 /\ ~IsPending(stu, tripPoll.now)
    /\ dbStopTimes[3].departed = 0

\* the stop sequence of the first pending stop of the poll (0: none pending)
FirstPending(payload) ==
    LET hits == {stu.stopSequence : stu \in {t \in StopsOf(payload) : IsPending(t, payload.now)}}
    IN IF hits = {} THEN 0 ELSE CHOOSE n \in hits : \A m \in hits : n <= m
BeforeFirstPending(payload, stu) ==
    FirstPending(payload) = 0 \/ stu.stopSequence < FirstPending(payload)

\* C16: the stops of a trip are taken in the order of their stop sequence and
\* a stop is marked departed exactly when it comes strictly before the first
\* stop whose predicted time (arrival, else departure) is later than now
\* minus 60 seconds; with no such stop every stop of the trip is departed.
C16_DepartedBeforeNext ==
    /\ FlagsAre(BeforeFirstPending)
    /\ \A i, j \in DOMAIN dbStopTimes :
          i < j => dbStopTimes[i].stop_sequence < dbStopTimes[j].stop_sequence
    /\ (tripPoll # NoCall /\ FirstPending(tripPoll) = 0) =>
          \A i \in DOMAIN dbStopTimes : dbStopTimes[i].departed = 1
\* the feed listed five stops against their sequence, the fourth is the
\* next pending one: the first three are departed, the last two are not
C16_Witness ==
    /\ tripPoll # NoCall
    /\ Len(dbStopTimes) = 5
    /\ tripPoll.updates[1].stopTimeUpdates[1].stopSequence = 5
    /\ FirstPending(tripPoll) = 4
    /\ [i \in 1..5 |-> dbStopTimes[i].departed] = <<1, 1, 1, 0, 0>>
    /\ [i \in 1..5 |-> dbStopTimes[i].stop_sequence] = <<1, 2, 3, 4, 5>>

\* C17: a request for a stop that has a cache entry is answered from the
\* entry, without a call to the timetable source, with the entry's stale
\* flag and never with an error, whatever the polls of any feed did before.
C17_CachedAnswer ==
    (response # NoCall /\ getCachedDepartures(response.for) # NoEntry) =>
        /\ response.status = 200
        /\ lastQuery.cached
        /\ response.stop = getCachedDepartures(response.for).data.stop
        /\ response.stale = getCachedDepartures(response.for).stale
\* an answer from an entry that a failed departures poll flagged, after a
\* failed trip-update poll
C17_Witness ==
    /\ response # NoCall
    /\ getCachedDepartures(response.for) # NoEntry
    /\ response.stale
    /\ lastOutcome["tripUpdates"] = "fail"

\* C18: a request is answered with an error only if no departures were ever
\* obtained for its stop: once a fetch for the stop has succeeded, by the
\* poller or by a request's direct lookup, a later failure is answered with
\* the data held, not with an error.
C18_ErrorOnlyWithoutData ==
    (response # NoCall /\ response.status = 500) =>
        /\ getCachedDepartures(response.for) = NoEntry
        /\ response.for \notin directOk

\* ------------------------------------------------------------ claims: live channel
\* C19: every connection of the live channel is sent exactly one init event,
\* with the vehicles and the route topology, at once on connection and
\* before any vehicles event or heartbeat is written to it.
C19_InitFirstAndOnce ==
    \A c \in DOMAIN conns :
        /\ Len(conns[c].log) >= 1
        /\ conns[c].log[1].type = "init"
        /\ conns[c].log[1].route = buildRoutePayload
        /\ \A i \in DOMAIN conns[c].log : conns[c].log[i].type = "init" => i = 1
\* a connection that got a vehicles event and a heartbeat after its init
C19_Witness ==
    \E c \in DOMAIN conns :
        /\ \E i \in DOMAIN conns[c].log : conns[c].log[i].type = "vehicles"
        /\ \E i \in DOMAIN conns[c].log : conns[c].log[i].type = "heartbeat"

\* a step that ends a vehicle poll of the collector, successfully or not
C20_PollOk == cPc = "fetch" /\ cPc' = "timer" /\ cBackoff' = vehiclePollInterval
C20_PollFailed == cPc = "fetch" /\ cPc' = "timer" /\ cBackoff' # vehiclePollInterval
C20_Sent(c) == conns'[c].log = Append(conns[c].log, VehiclesEvent(dbVehicles'))
C20_Quiet == \A c \in DOMAIN conns : conns'[c].log = conns[c].log
C20_Step ==
    /\ C20_PollOk =>
          IF Fingerprint(dbVehicles') # pubPrint
          THEN /\ \A c \in DOMAIN conns :
                     IF conns[c].open THEN C20_Sent(c) ELSE conns'[c].log = conns[c].log
               /\ pubPrint' = Fingerprint(dbVehicles')
          ELSE C20_Quiet /\ pubPrint' = pubPrint
    /\ C20_PollFailed => (C20_Quiet /\ pubPrint' = pubPrint)

C21_NewEvents(c) ==
    LET old == IF c \in DOMAIN conns THEN Len(conns[c].log) ELSE 0
    IN {conns'[c].log[i] : i \in (old + 1)..Len(conns'[c].log)}
\* the most recent vehicle poll failed: the catch block doubled the backoff,
\* every success resets it
C21_LastPollFailed == cBackoff' # vehiclePollInterval
C21_Step ==
    \A c \in DOMAIN conns' : \A e \in C21_NewEvents(c) :
        e.type \in {"init", "vehicles"} => (e.stale <=> C21_LastPollFailed)

\* C21: the stale flag of every init and vehicles payload of the live channel
\* is true when the most recent vehicle poll failed (the served vehicles are
\* older than the freshness target) and false when it succeeded.
C21_StaleTellsFailedPoll == [][C21_Step]_vars

C22_Open == {c \in DOMAIN conns : conns[c].open}
C22_Released ==
    /\ Len(listeners) = Cardinality(C22_Open)
    /\ Range(listeners) = C22_Open
    /\ heartbeats = C22_Open
C22_SilentAfterClose ==
    \A c \in DOMAIN conns : ~conns[c].open => conns'[c] = conns[c]

\* C22: when a consumer of the live channel disconnects, its update listener
\* is removed and its heartbeat timer cancelled: nothing is written to the
\* connection after its close, and in every state there are as many
\* registered listeners (and heartbeat timers) as open connections.
C22_ReleasedOnClose == []C22_Released /\ [][C22_SilentAfterClose]_vars
\* a connection opened with no vehicles stored and closed before the poll that
\* published the vehicles stored now
C22_Witness ==
    \E c \in DOMAIN conns :
        /\ ~conns[c].open
        /\ conns[c].log = <<InitEvent(<<>>)>>
        /\ dbVehicles # <<>>
        /\ pubPrint = Fingerprint(dbVehicles)

\* ------------------------------------------------------------ claims: the page
\* a step that handles an error event of the channel
C23_ErrorStep == Len(errLog') = Len(errLog) + 1
\* the error events of the last 5 seconds, the one handled now included
C23_InWindow == {i \in DOMAIN errLog' : dateNow' - errLog'[i].at < RAPID_FAILURE_WINDOW}
\* those of them with no init event and no reopen of the channel since
C23_Unanswered == {i \in C23_InWindow : ~errLog'[i].reset}
C23_Abandons ==
    /\ connectionStatus' = "polling"
    /\ pollingRef'
    /\ esRef' = 0
    /\ sources'[esRef].closed
C23_Keeps ==
    /\ connectionStatus' = "reconnecting"
    /\ esRef' = esRef
    /\ ~sources'[esRef].closed
    /\ ~pollingRef'
C23_Rule(errors) ==
    C23_ErrorStep =>
        IF Cardinality(errors) >= MAX_RAPID_FAILURES THEN C23_Abandons ELSE C23_Keeps

\* C23 as stated: at the third error of the live channel within a rolling
\* 5-second window the page closes the channel and switches to polling; with
\* fewer errors in the window it keeps the channel and is reconnecting.
C23_ThreeErrorsInWindow == [][C23_Rule(C23_InWindow)]_vars

\* C23, amended: the errors counted are those of the last 5 seconds since the
\* last init event or reopen of the channel.
C23_ThreeUnansweredErrors == [][C23_Rule(C23_Unanswered)]_vars
\* the page fell back at the third error in a row, an earlier error having
\* been followed by an init event
C23_Witness ==
    /\ connectionStatus = "polling"
    /\ esRef = 0
    /\ Len(errLog) = 4
    /\ errLog[1].reset
    /\ \A i \in 2..4 : ~errLog[i].reset /\ dateNow - errLog[i].at < RAPID_FAILURE_WINDOW
    /\ \A es \in DOMAIN sources : sources[es].initTimeout # "fired"


\* the channel is open, its init timeout has passed and no init event has
\* arrived on it
C24_Overdue ==
    /\ esRef # 0
    /\ esRef \notin initSeen
    /\ dateNow >= sources[esRef].openedAt + SSE_INIT_TIMEOUT

\* C24: whenever the page has opened the live channel and no init event
\* arrives within the init timeout, the page eventually falls back to
\* polling, whatever error and vehicles events arrive on the channel.
C24_NoInitFallsBack == C24_Overdue ~> (connectionStatus = "polling")


\* in polling fallback no channel is open, and the next state is in polling
\* fallback with no EventSource added
C25_Terminal ==
    connectionStatus = "polling" =>
        /\ connectionStatus' = "polling"
        /\ Len(sources') = Len(sources)
        /\ esRef = 0 /\ esRef' = 0
        /\ \A es \in DOMAIN sources : sources[es].closed /\ sources'[es].closed
C25_Claimed ==
    {<<"connecting", "connected">>, <<"connected", "reconnecting">>,
     <<"reconnecting", "connected">>, <<"connecting", "polling">>,
     <<"reconnecting", "polling">>}
\* an error before the first init event, a reopen on a visibility change, a
\* fallback after vehicles events without an init event
C25_Further ==
    {<<"connecting", "reconnecting">>, <<"connected", "connecting">>,
     <<"reconnecting", "connecting">>, <<"connected", "polling">>}
C25_Moves(allowed) ==
    connectionStatus' # connectionStatus => <<connectionStatus, connectionStatus'>> \in allowed

\* C25 as stated: polling fallback is terminal (no new EventSource, also not
\* on a visibility change, and the status stays 'polling'), and the status
\* only moves connecting -> connected, connected -> reconnecting,
\* reconnecting -> connected, and from connecting or reconnecting to polling.
C25_TerminalAndFiveMoves == [][C25_Terminal /\ C25_Moves(C25_Claimed)]_vars

\* C25, amended: polling fallback is terminal, and the status moves only as
\* claimed or connecting -> reconnecting, connected -> connecting,
\* reconnecting -> connecting, connected -> polling.
C25_TerminalAndMoves == [][C25_Terminal /\ C25_Moves(C25_Claimed \cup C25_Further)]_vars
\* the page fell back on its second EventSource and time went on
C25_Witness ==
    /\ connectionStatus = "polling"
    /\ pollingRef
    /\ Len(sources) = 2
    /\ dateNow > sources[2].openedAt
    /\ sources[2].initTimeout = "cleared"


\* ------------------------------------------------------------ claims: isolation of the feeds
\* what the polling service holds for feed g
C27_Held(g) ==
    <<busy[g], backoff[g],
      IF g = "vehicles" THEN cachedVehicles
      ELSE IF g = "departures" THEN cachedDepartures ELSE realtimeArrivals>>
\* a poll of feed f starts or ends (not the three started by one startPolling())
C27_PollEvent(f) == inflight'[f] # inflight[f] /\ started' = started
C27_Step ==
    \A f \in Feeds : C27_PollEvent(f) =>
        \A g \in Feeds \ {f} : C27_Held(g)' = C27_Held(g)

\* C27: the start, success or failure of a poll of one feed leaves the busy
\* flag, the backoff delay and the cached data of the other two feeds
\* unchanged (polls of different feeds being in flight together).
C27_FeedsIsolated == [][C27_Step]_vars
\* two feeds have a poll in flight while the third has just failed twice and
\* backs off alone
C27_Witness ==
    /\ inflight["vehicles"] = 1 /\ inflight["departures"] = 1
    /\ lastOutcome["tripUpdates"] = "fail" /\ fails["tripUpdates"] = 2
    /\ backoff["tripUpdates"] = 4 * vehiclePollInterval
    /\ backoff["vehicles"] = vehiclePollInterval
    /\ backoff["departures"] = departurePollInterval
    /\ cachedVehicles.stale = FALSE


\* ------------------------------------------------------------ claims: proactive check
\* the version token recorded with the active snapshot (none: no snapshot)
C28_ActiveToken ==
    IF routeData = NULL THEN NoToken
    ELSE [etag |-> routeData.metadata.gtfsEtag,
          lastModified |-> routeData.metadata.gtfsLastModified]
\* the HEAD request of the 24h check returns or fails
C28_CheckEnds == proactive = "head" /\ proactive' = "idle"
C28_Step ==
    C28_CheckEnds => (lastTrigger' # "none" => Token(upVersion) # C28_ActiveToken)

\* C28: the periodic proactive check calls for a refresh only when the
\* upstream dataset's version token differs from the token recorded for the
\* active snapshot; with equal tokens it calls for none.
C28_RefreshOnlyOnMismatch == [][C28_Step]_vars
\* the check has just started a refresh, the upstream being one version ahead
\* of the snapshot
C28_Witness ==
    /\ lastTrigger = "started"
    /\ staleTriggers = 0
    /\ proactive = "idle"
    /\ routeData # NULL
    /\ upVersion = 2
    /\ C28_ActiveToken = Token(1)


\* ------------------------------------------------------------ claims: feed filters
\* the route and trip ids of the entities of q, in order
C26_Ids(q) == [i \in DOMAIN q |-> <<q[i].routeId, q[i].tripId>>]
C26_Known(e) == e.routeId \in routeIdSet \/ e.tripId \in tripIdSet
C26_NamesAStop(e) == \E i \in DOMAIN e.stopTimeUpdates : e.stopTimeUpdates[i].stopId # NULL
C26_VehiclesExact ==
    \A feed \in VehicleFeeds :
        C26_Ids(fetchVehiclePositions(feed))
            = C26_Ids(SelectSeq(feed, LAMBDA e : e.trip /\ e.position /\ C26_Known(e)))
C26_TripsExact(usable(_)) ==
    \A feed \in TripFeeds :
        C26_Ids(fetchTripUpdates(feed))
            = C26_Ids(SelectSeq(feed, LAMBDA e : e.trip /\ C26_Known(e) /\ usable(e)))
C26_Any(e) == TRUE

\* C26 as stated: fetchVehiclePositions and fetchTripUpdates return exactly
\* the feed entities with trip data (and, for vehicles, a position) whose
\* route id or trip id is in the known-id sets of the active snapshot.
C26_ExactlyTheKnown == C26_VehiclesExact /\ C26_TripsExact(C26_Any)

\* C26, amended: for trip updates the entity must also hold at least one
\* stop-time update that names its stop.
C26_ExactlyTheKnownUsable == C26_VehiclesExact /\ C26_TripsExact(C26_NamesAStop)
\* both tables hold a row of a trip the snapshot does not know, kept for its
\* route id, after a poll whose other entity was dropped
C26_Witness ==
    /\ Len(dbVehicles) = 1
    /\ dbVehicles[1].trip_id \notin tripIdSet
    /\ Len(dbStopTimes) = 1
    /\ dbStopTimes[1].trip_id \notin tripIdSet
    /\ routeIdSet # {}


\* ------------------------------------------------------------ claims: the data volume
\* the documents parseGtfsData can produce in full
C29_Documents ==
    {ParseGtfsData(zv, Token(t)) : zv \in 1..(MaxVersions + 1), t \in 1..(MaxVersions + 1)}
C29_Whole(file) == file = NoFile \/ file \in C29_Documents
\* route.json changes in a single file operation, to the document that the
\* temporary file held in full
C29_Replaced ==
    routeJson' # routeJson =>
        /\ routeJson' = routeTmp
        /\ routeJson' \in C29_Documents
        /\ routeTmp' = NoFile

C30_EmptyRoute ==
    [direction1 |-> [stops |-> <<>>, shape |-> <<>>],
     direction2 |-> [stops |-> <<>>, shape |-> <<>>]]
\* the route of a payload made from snapshot rd: its stops, and a shape
C30_RouteOf(rd) ==
    [direction1 |-> [stops |-> rd.stops.route.direction1,
                     shape |-> rd.shapes[rd.tripShapeMap[rd.tripIds[1]]]],
     direction2 |-> [stops |-> rd.stops.route.direction2,
                     shape |-> rd.shapes[rd.tripShapeMap[rd.tripIds[2]]]]]
C30_Expected == IF routeData = NULL THEN C30_EmptyRoute ELSE C30_RouteOf(routeData)
\* a vehicle request is answered in this step
C30_Answered == vehiclesRes'.served = vehiclesRes.served + 1
\* a live channel is opened in this step
C30_Opened == Len(conns') = Len(conns) + 1
\* a refresh reads the route.json it has just written
C30_Installs ==
    \E i \in DOMAIN running :
        /\ running[i].pc = "parse"
        /\ i \in DOMAIN running'
        /\ running'[i].pc = "loaded"
        /\ routeData' = routeJson'
C30_Step ==
    /\ C30_Answered =>
          /\ vehiclesRes'.res.status = 200
          /\ vehiclesRes'.res.body.route = C30_Expected
    /\ C30_Opened =>
          /\ Len(conns'[Len(conns')].log) = 1
          /\ conns'[Len(conns')].log[1].type = "init"
          /\ conns'[Len(conns')].log[1].route = C30_Expected
    /\ (routeData = NULL /\ routeData' # NULL) => C30_Installs

\* C30: while no snapshot is loaded every vehicle request and every init
\* payload of the live channel succeeds with empty stop lists and empty
\* shapes for both directions, and the snapshot that ends this is installed
\* by a refresh; from then on they carry the snapshot's stops and shapes.
C30_EmptyUntilInstalled == [][C30_Step]_vars
\* a request and a live channel were answered without a snapshot, a refresh
\* has installed one since, and the channel opened after it got its route
C30_Witness ==
    /\ routeData # NULL
    /\ Len(conns) = 2
    /\ conns[1].log[1].route = C30_EmptyRoute
    /\ conns[2].log[1].route = C30_RouteOf(routeData)
    /\ vehiclesRes.served = 1
    /\ vehiclesRes.res.status = 200
    /\ vehiclesRes.res.body.route = C30_EmptyRoute
    /\ vehiclesRes.res.body.vehicles = <<>>


\* ------------------------------------------------------------ claims: leave-by
\* the departures of the last answer
C31_Answer == IF response # NoCall /\ response.status = 200 THEN response.departures ELSE <<>>
\* the naive local string naming the time `minutes` before local time `t`
C31_Earlier(t, minutes) == [at |-> t - 60 * minutes, suffix |-> ""]

\* C31: with walkTime = 0 every returned departure has leaveBy = null; with
\* walkTime = W > 0 every returned departure's leaveBy names the local time W
\* minutes before its expected time, in the format of the expected time,
\* without a zone suffix.
C31_LeaveBy ==
    \A i \in DOMAIN C31_Answer :
        IF response.walkTimeMinutes = 0 THEN C31_Answer[i].leaveBy = NULL
        ELSE C31_Answer[i].leaveBy =
                 C31_Earlier(C31_Answer[i].d.expectedDeparture, response.walkTimeMinutes)
\* an answer for a walk of five minutes with a departure whose expected time
\* came from a prediction and one whose expected time is the scheduled one
C31_Witness ==
    /\ response # NoCall /\ response.status = 200
    /\ response.walkTimeMinutes = 5
    /\ \E i, j \in DOMAIN response.departures :
          /\ response.departures[i].d.source = "realtime"
          /\ response.departures[j].d.source = "scheduled"
          /\ response.departures[i].leaveBy # NULL


\* ------------------------------------------------------------ claims: direction
\* GTFS direction 0 is shown as 1, GTFS direction 1 as 2
C32_Shown(gtfs) == [dir |-> gtfs + 1]
\* the direction to show for vehicle v of the feed under the loaded snapshot
C32_Expected(v) ==
    IF v.directionId # NULL THEN C32_Shown(v.directionId.dir)
    ELSE IF routeData # NULL /\ v.tripId \in DOMAIN routeData.tripDirectionMap
         THEN C32_Shown(routeData.tripDirectionMap[v.tripId])
         ELSE NULL
\* the rows the collector would store for any feed have the expected direction
C32_Stored ==
    \A feed \in DirectionFeeds :
        LET positions == fetchVehiclePositions(feed)
        IN \A i \in DOMAIN positions : ToDbVehicle(positions[i]).direction = C32_Expected(positions[i])
\* a vehicle request answered in this step shows the expected directions
C32_Served ==
    vehiclesRes'.served = vehiclesRes.served + 1 =>
        /\ vehiclesRes'.res.status = 200
        /\ Len(vehiclesRes'.res.body.vehicles) = Len(cachedVehicles.data)
        /\ \A i \in DOMAIN cachedVehicles.data :
              vehiclesRes'.res.body.vehicles[i].direction = C32_Expected(cachedVehicles.data[i])

\* C32: the direction shown for a vehicle is the feed's direction when the
\* feed has one, else the direction of its trip in the loaded snapshot, 0
\* shown as 1 and 1 as 2; with neither it is null, and a vehicle without a
\* feed direction is never shown as if the feed had said 0.
C32_DirectionShown == []C32_Stored /\ [][C32_Served]_vars
\* a vehicle without a feed direction whose trip the snapshot does not list
\* was served with direction null
C32_Witness ==
    /\ vehiclesRes.served >= 1
    /\ routeData # NULL
    /\ vehiclesRes.res.status = 200
    /\ Len(vehiclesRes.res.body.vehicles) = 1
    /\ vehiclesRes.res.body.vehicles[1].direction = NULL
    /\ cachedVehicles.data[1].directionId = NULL
\* the feed said 1 against a trip of direction 0: 2 is shown
C32_WitnessFeedWins ==
    /\ vehiclesRes.served >= 1
    /\ vehiclesRes.res.status = 200
    /\ Len(vehiclesRes.res.body.vehicles) = 1
    /\ vehiclesRes.res.body.vehicles[1].direction = [dir |-> 2]
    /\ vehiclesRes.res.body.vehicles[1].tripId = TripIdOf(1, 1)


\* ------------------------------------------------------------ claims: the timetable source
\* a pass of the operator and the line, not the night service
C33_Wanted(pass) ==
    /\ pass.DataOwnerCode = "CXX" /\ pass.LinePublicNumber = "80"
    /\ pass.LinePlanningNumber # "N286"
\* round((expected - scheduled) / 60000), times in local seconds
C33_Delay(pass) ==
    IF pass.ExpectedDepartureTime = NoTime THEN 0
    ELSE LET ms == 1000 * (pass.ExpectedDepartureTime - pass.TargetDepartureTime)
         IN CHOOSE m \in -60..60 : 2 * ms >= (2 * m - 1) * 60000 /\ 2 * ms < (2 * m + 1) * 60000
\* fetchDepartures returns one departure per wanted pass, with its delay
C33_Filter ==
    \A passes \in PassLists :
        LET got == fetchDepartures(passes).departures
            wanted == {i \in DOMAIN passes : C33_Wanted(passes[i])}
        IN /\ Len(got) = Cardinality(wanted)
           /\ \A i \in wanted : \E k \in DOMAIN got :
                 /\ got[k].journeyNumber = passes[i].JourneyNumber
                 /\ got[k].delayMinutes = C33_Delay(passes[i])
                 /\ got[k].isDelayed = (C33_Delay(passes[i]) >= 1)
                 /\ got[k].lineDirection = passes[i].LineDirection
\* the last answer came from a direct fetch of the fixture with no prediction
\* at the stop
C33_FixtureAnswered ==
    /\ response # NoCall /\ response.status = 200
    /\ lastQuery # NoCall /\ ~lastQuery.cached /\ lastQuery.rts = <<>>
    /\ \E i \in DOMAIN lastQuery.all : lastQuery.all[i].journeyNumber = 201
C33_Fixture ==
    C33_FixtureAnswered =>
        /\ Len(response.departures) = 1
        /\ response.departures[1].d.journeyNumber \notin {999, 888}
        /\ response.departures[1].d.delayMinutes = IF response.direction = 1 THEN 5 ELSE 0
        /\ response.departures[1].d.isDelayed = (response.direction = 1)

\* C33: fetchDepartures keeps only the passes of the configured operator and
\* line and drops the night service, with delay = round((expected -
\* scheduled) / 60000) minutes and isDelayed = (delay >= 1); for the four
\* passes of the fixture direction 1 yields one departure, 5 minutes late
\* and delayed, direction 2 one departure on time, and neither the other
\* operator's nor the night passage appears.
C33_FilterAndDelay == C33_Filter /\ C33_Fixture
\* the fixture was fetched for direction 1: one departure, five minutes late
C33_Witness ==
    /\ C33_FixtureAnswered
    /\ response.direction = 1
    /\ Len(response.departures) = 1
    /\ response.departures[1].d.delayMinutes = 5


\* ------------------------------------------------------------ claims: the cache under queries
\* what the claim compares of a departure
C34_Facts(d) == <<d.expectedDeparture, d.delayMinutes, d.isDelayed>>

\* C34: answering departures queries never changes the cached departures:
\* after any sequence of queries the cached entry of the stop has as many
\* departures as the last successful poll of the timetable source returned,
\* each with the same expected time, delay and delayed flag.
C34_QueriesLeaveCache ==
    (cachedDepartures # NoEntry /\ lastOutcome["departures"] = "ok") =>
        LET held == cachedDepartures.data.departures
            polled == lastResult["departures"].departures
        IN /\ Len(held) = Len(polled)
           /\ \A i \in DOMAIN held : C34_Facts(held[i]) = C34_Facts(polled[i])


\* ------------------------------------------------------------ claims: the empty-poll counter
\* a vehicle poll ends in this step: its fetch returned and the rows were
\* stored, or it failed
C35_PollStored == cPc = "fetch" /\ cPc' = "timer" /\ cBackoff' = vehiclePollInterval
C35_PollFailed == cPc = "fetch" /\ cPc' = "timer" /\ cBackoff' > vehiclePollInterval
\* the poll that ends stored no vehicle, inside or outside operating hours
C35_EmptyInside == C35_PollStored /\ dbVehicles' = <<>> /\ emptyRun' = emptyRun + 1
C35_EmptyOutside == C35_PollStored /\ dbVehicles' = <<>> /\ emptyRun' = emptyRun
C35_Step ==
    /\ (consecutiveEmptyPolls > 0 /\ consecutiveEmptyPolls' = 0) =>
          \/ C35_PollStored /\ dbVehicles' # <<>>
          \/ C35_EmptyInside /\ consecutiveEmptyPolls + 1 = stalenessThreshold
    /\ (C35_PollFailed \/ C35_EmptyOutside) => consecutiveEmptyPolls' = consecutiveEmptyPolls
    /\ C35_EmptyInside =>
          consecutiveEmptyPolls' = (consecutiveEmptyPolls + 1) % stalenessThreshold
    /\ ~(C35_PollStored \/ C35_PollFailed) => consecutiveEmptyPolls' = consecutiveEmptyPolls

\* C35: the counter of consecutive empty polls goes back to zero only when a
\* vehicle poll returns a vehicle or when the threshold is reached; a failed
\* poll and an empty poll outside operating hours leave it as it is, so the
\* empty polls inside the hours on either side of them add up.
C35_CounterKept == [][C35_Step]_vars
\* two empty polls were counted and the poll after them failed: still two
C35_Witness ==
    /\ consecutiveEmptyPolls = 2
    /\ cPc = "timer"
    /\ cBackoff > vehiclePollInterval


\* ------------------------------------------------------------ claims: failed refresh
\* C36.  A refresh that ends before `await loadRouteData()` (the HEAD
\* request, the download, the extraction or the parse failed, or the agency or
\* the route was not found) returns false to its caller, and the step leaves
\* routeData, routeIdSet, tripIdSet and the stop-identifier bridge as they were.
C36_EndsEarly ==
    /\ Len(running) = 1
    /\ running' = <<>>
    /\ running[1].pc # "loaded"
C36_Step ==
    C36_EndsEarly =>
        /\ lastCall' # NoCall
        /\ lastCall'.ret = FALSE
        /\ ~lastCall'.installed
        /\ routeData' = routeData
        /\ routeIdSet' = routeIdSet
        /\ tripIdSet' = tripIdSet
        /\ stopIdCache' = stopIdCache
C36_FailedRefreshKeepsSnapshot == [][C36_Step]_vars
\* a truncated download has failed while a snapshot and a built bridge were
\* in use
C36_Witness ==
    /\ running = <<>>
    /\ lastCall # NoCall
    /\ lastCall.ret = FALSE
    /\ zipFile = HalfWritten
    /\ routeData # NULL
    /\ stopIdCache # NULL


\* ------------------------------------------------------------ claims: refresh guards
\* C37.  Whenever no refresh attempt is in progress both guard flags are
\* clear: every attempt, whether it installed a snapshot, found no change or
\* failed, clears refreshInProgress and gtfsRefreshInProgress on its way out.
C37_Cleared ==
    running = <<>> => ~refreshInProgress /\ ~gtfsRefreshInProgress
\* the step that ends an attempt leaves both flags clear
C37_AttemptEnds ==
    Len(running') < Len(running) => ~refreshInProgress' /\ ~gtfsRefreshInProgress'
\* a trigger that arrives while no attempt is in progress starts one
C37_TriggerStarts ==
    (running = <<>> /\ lastTrigger' # "none") =>
        /\ lastTrigger' = "started"
        /\ Len(running') = 1
        /\ running'[1].pc = "head"
C37_NeverBlocked ==
    /\ []C37_Cleared
    /\ [][C37_AttemptEnds /\ C37_TriggerStarts]_vars
\* a trigger has started an attempt after an attempt that failed in its
\* download, with a snapshot installed by an attempt before that
C37_Witness ==
    /\ lastTrigger = "started"
    /\ lastCall # NoCall
    /\ lastCall.ret = FALSE
    /\ zipFile = HalfWritten
    /\ routeData # NULL
    /\ Len(running) = 1


\* ------------------------------------------------------------ claims: polling loops
\* C38.  A feed's loop never stops and never multiplies: each chain that
\* startPolling() began has exactly one attempt of the feed pending, armed as
\* a timer or in flight.
C38_Pending ==
    \A f \in Feeds : timers[f] + inflight[f] = started
\* the step that completes an attempt, by success or by failure, clears the
\* busy flag and arms exactly one timer; an attempt that found the feed busy
\* arms the one timer it used
C38_Step ==
    \A f \in Feeds :
        /\ inflight'[f] < inflight[f] =>
              /\ timers'[f] = timers[f] + 1
              /\ inflight'[f] = inflight[f] - 1
              /\ ~busy'[f]
        /\ (nskips' > nskips /\ started' = started) => timers'[f] = timers[f]
\* after a failed poll the feed is polled again
C38_Retried ==
    \A f \in Feeds : (lastOutcome[f] = "fail" /\ ~busy[f]) ~> busy[f]
\* a busy flag that is set is cleared
C38_BusyCleared ==
    \A f \in Feeds : busy[f] ~> ~busy[f]
C38_LoopNeverStops ==
    /\ []C38_Pending
    /\ [][C38_Step]_vars
    /\ C38_Retried
    /\ C38_BusyCleared
\* a feed has failed three times in a row and its next attempt is in flight
C38_Witness ==
    \E f \in Feeds :
        /\ fails[f] >= 3
        /\ lastOutcome[f] = "fail"
        /\ busy[f]
        /\ inflight[f] = 1


\* ------------------------------------------------------------ claims: backoff range
\* C39.  The backoff of every feed, of the request-path pollers and of the
\* collector's two loops, is at least the feed's poll interval and at most
\* five minutes.
C39_InRange(b, initial) == initial <= b /\ b <= 5 * 60 * 1000
C39_BackoffInRange ==
    /\ \A f \in Feeds :
          C39_InRange(backoff[f], IF f = "departures" THEN departurePollInterval
                                  ELSE vehiclePollInterval)
    /\ C39_InRange(cBackoff, vehiclePollInterval)
    /\ C39_InRange(tBackoff, vehiclePollInterval)
\* one feed sits at the ceiling after five failures while another is back at
\* its interval after a success that followed a failure
C39_Witness ==
    \E f, g \in Feeds :
        /\ f # g
        /\ fails[f] = 5 /\ backoff[f] = 300000
        /\ lastOutcome[g] = "ok" /\ backoff[g] = 30000 /\ lastDelay[g] = 30000


\* ------------------------------------------------------------ claims: stored polls
\* C40.  A poll's rows are stored whole or not at all.  The vehicles table
\* and the stop_times table hold, in every state, the complete row list of one
\* fetched feed (no key twice, nothing missing).
C40_RowsOf(feed) ==
    LET positions == fetchVehiclePositions(feed)
    IN [i \in DOMAIN positions |-> ToDbVehicle(positions[i])]
C40_NoKeyTwice(rows, Key(_)) ==
    \A i, j \in DOMAIN rows : Key(rows[i]) = Key(rows[j]) => i = j
C40_Whole ==
    /\ C40_NoKeyTwice(dbVehicles, LAMBDA v : v.vehicle_id)
    /\ C40_NoKeyTwice(dbStopTimes, LAMBDA st : <<st.trip_id, st.stop_id>>)
    /\ \E feed \in StoreVehicleFeeds : dbVehicles = C40_RowsOf(feed)
    /\ tripPoll = NoCall => dbStopTimes = <<>>
    /\ tripPoll # NoCall => dbStopTimes = StopTimeRows(tripPoll.updates, tripPoll.now)
\* a poll of the vehicles that ends with its backoff doubled left the table,
\* the fingerprint and every connection of the live channel as they were; the
\* rows change only in a poll that ends with the backoff reset
C40_VehiclesStep ==
    /\ (cPc = "fetch" /\ cPc' = "timer" /\ cBackoff' # vehiclePollInterval) =>
          /\ cBackoff' = IF 2 * cBackoff < 300000 THEN 2 * cBackoff ELSE 300000
          /\ dbVehicles' = dbVehicles
          /\ lastVehicleFingerprint' = lastVehicleFingerprint
          /\ conns' = conns
          /\ ~cBusy'
    /\ dbVehicles' # dbVehicles =>
          /\ cPc = "fetch" /\ cPc' = "timer"
          /\ cBackoff' = vehiclePollInterval
\* the same for the stop times
C40_StopTimesStep ==
    /\ (tBusy /\ ~tBusy' /\ tBackoff' # vehiclePollInterval) =>
          /\ tBackoff' = IF 2 * tBackoff < 300000 THEN 2 * tBackoff ELSE 300000
          /\ dbStopTimes' = dbStopTimes
          /\ tripPoll' = tripPoll
    /\ dbStopTimes' # dbStopTimes =>
          /\ tBusy /\ ~tBusy'
          /\ tBackoff' = vehiclePollInterval
C40_AllOrNothing ==
    /\ []C40_Whole
    /\ [][C40_VehiclesStep /\ C40_StopTimesStep]_vars
\* both stores have failed after a poll that stored rows, with a listener on
\* the live channel
C40_Witness ==
    /\ cPc = "timer" /\ cBackoff = 2 * vehiclePollInterval
    /\ Len(dbVehicles) = 2
    /\ listeners # <<>>
    /\ ~tBusy /\ tBackoff = 2 * vehiclePollInterval
    /\ Len(dbStopTimes) = 2


\* ------------------------------------------------------------ specifications
\* The polling loops of services/polling.ts.
Init == PollInit /\ RefreshInit(NoFile) /\ MergeInit /\ TripInit /\ LiveInit /\ ClientInit /\ ReqInit
Next ==
    \/ StartPolling /\ UNCHANGED <<refreshVars, mergeVars, tripVars, liveVars, clientVars, reqVars>>
    \/ \E f \in Feeds : PollBegin(f) /\ UNCHANGED <<refreshVars, mergeVars, tripVars, liveVars, clientVars, reqVars>>
    \/ \E f \in Feeds : PollSkip(f) /\ UNCHANGED <<refreshVars, mergeVars, tripVars, liveVars, clientVars, reqVars>>
    \/ \E f \in Feeds : \E result \in SampleResults(f) : PollOk(f, result) /\ UNCHANGED <<refreshVars, mergeVars, tripVars, liveVars, clientVars, reqVars>>
    \/ \E f \in Feeds : PollFail(f) /\ UNCHANGED <<refreshVars, mergeVars, tripVars, liveVars, clientVars, reqVars>>
    \/ \E result \in SampleResults("departures") : \E at \in DOMAIN result.departures :
          PollRecordFail(result, at) /\ UNCHANGED <<refreshVars, mergeVars, tripVars, liveVars, clientVars, reqVars>>
Spec == Init /\ [][Next]_vars

\* The same loops under the scheduling Node gives them: a timer that is armed
\* fires, and a fetch that was started returns or throws.  One payload per
\* feed: what the caches hold plays no part in the scheduling.
PollRest == <<refreshVars, mergeVars, tripVars, liveVars, clientVars, reqVars>>
RetryResults(f) ==
    IF f = "departures"
    THEN {DepartureResult(<<OvDeparture(1, 0, 0, 1), OvDeparture(2, 300, 60, 1)>>)}
    ELSE IF f = "tripUpdates" THEN {TripPayload(<<>>, 0)}
    ELSE {<<f, 1>>}
TimerFires(f) == PollBegin(f) /\ UNCHANGED PollRest
FetchReturns(f) ==
    /\ \/ \E result \in RetryResults(f) : PollOk(f, result)
       \/ PollFail(f)
    /\ UNCHANGED PollRest
NextRetry ==
    \/ StartPolling /\ UNCHANGED PollRest
    \/ \E f \in Feeds : TimerFires(f)
    \/ \E f \in Feeds : PollSkip(f) /\ UNCHANGED PollRest
    \/ \E f \in Feeds : \E result \in RetryResults(f) : PollOk(f, result) /\ UNCHANGED PollRest
    \/ \E f \in Feeds : PollFail(f) /\ UNCHANGED PollRest
    \/ \E result \in RetryResults("departures") : \E at \in DOMAIN result.departures :
          PollRecordFail(result, at) /\ UNCHANGED PollRest
SpecRetry ==
    /\ Init
    /\ [][NextRetry]_vars
    /\ \A f \in Feeds : WF_vars(TimerFires(f)) /\ WF_vars(FetchReturns(f))

\* The collector's vehicle loop, the refresher and the readers of the
\* reference data; route.json is on the data volume at boot, or missing.
InitRefresh ==
    /\ PollInit
    /\ \E file \in {NoFile, ParseGtfsData(1, Token(1))} : RefreshInit(file)
    /\ MergeInit
    /\ TripInit
    /\ LiveInit
    /\ ClientInit
    /\ ReqInit
NextRefresh ==
    \/ MainBoot /\ UNCHANGED <<pollVars, mergeVars, tripVars, liveVars, clientVars, reqVars>>
    \/ NoMicrotask /\ CollectorBegin /\ UNCHANGED <<pollVars, mergeVars, tripVars, liveVars, clientVars, reqVars>>
    \/ NoMicrotask /\ \E feed \in RawFeeds : \E hour \in Hours : CollectorOk(feed, hour) /\ UNCHANGED <<pollVars, mergeVars, tripVars, clientVars, reqVars>>
    \/ NoMicrotask /\ CollectorFail /\ UNCHANGED <<pollVars, mergeVars, tripVars, liveVars, clientVars, reqVars>>
    \/ NoMicrotask /\ ProactiveBegin /\ UNCHANGED <<pollVars, mergeVars, tripVars, liveVars, clientVars, reqVars>>
    \/ NoMicrotask /\ ProactiveDone /\ UNCHANGED <<pollVars, mergeVars, tripVars, liveVars, clientVars, reqVars>>
    \/ NoMicrotask /\ ProactiveFail /\ UNCHANGED <<pollVars, mergeVars, tripVars, liveVars, clientVars, reqVars>>
    \/ NoMicrotask /\ \E i \in DOMAIN running : RefreshHeadOk(i) /\ UNCHANGED <<pollVars, mergeVars, tripVars, liveVars, clientVars, reqVars>>
    \/ NoMicrotask /\ \E i \in DOMAIN running : RefreshHeadFail(i) /\ UNCHANGED <<pollVars, mergeVars, tripVars, liveVars, clientVars, reqVars>>
    \/ NoMicrotask /\ \E i \in DOMAIN running : RefreshDownloadOk(i) /\ UNCHANGED <<pollVars, mergeVars, tripVars, liveVars, clientVars, reqVars>>
    \/ NoMicrotask /\ \E i \in DOMAIN running : \E t \in BOOLEAN : RefreshDownloadFail(i, t) /\ UNCHANGED <<pollVars, mergeVars, tripVars, liveVars, clientVars, reqVars>>
    \/ NoMicrotask /\ \E i \in DOMAIN running : RefreshParseOk(i) /\ UNCHANGED <<pollVars, mergeVars, tripVars, liveVars, clientVars, reqVars>>
    \/ NoMicrotask /\ \E i \in DOMAIN running : RefreshParseFail(i) /\ UNCHANGED <<pollVars, mergeVars, tripVars, liveVars, clientVars, reqVars>>
    \/ \E i \in DOMAIN running : RefreshInvalidate(i) /\ UNCHANGED <<pollVars, mergeVars, tripVars, liveVars, clientVars, reqVars>>
    \/ NoMicrotask /\ \E a \in LookupArgs : Lookup(a[1], a[2]) /\ UNCHANGED <<pollVars, mergeVars, tripVars, liveVars, clientVars, reqVars>>
    \/ NoMicrotask /\ UpstreamRotate /\ UNCHANGED <<pollVars, mergeVars, tripVars, liveVars, clientVars, reqVars>>
SpecRefresh == InitRefresh /\ [][NextRefresh]_vars

\* The departures route over the caches as the polls leave them: the process
\* is up with dataset version 1 loaded, every feed has been polled once.
MergeDepartureLists ==
    LET d0 == OvDeparture(1, 0, 0, 1)
        d300 == OvDeparture(2, 300, 60, 1)
        back == OvDeparture(3, 0, 0, 2)
    IN {<<d0>>, <<d0, d300>>, <<d0, back, d300>>}
\* <<arrivalTime, delay>> of the predictions
RtSamples == {<<120, 0>>, <<390, 90>>, <<600, 0>>, <<810, -90>>}
MergeArrivalLists ==
    LET raw == UNION {[1..n -> RtSamples \X BOOLEAN] : n \in 0..MaxArrivals}
        sorted(q) == \A i \in 1..(Len(q) - 1) : q[i][1][1] <= q[i + 1][1][1]
    IN {[i \in DOMAIN q |-> RealtimeArrival(TripIdOf(1, i), q[i][1][1], q[i][1][2], q[i][2])] :
           q \in {r \in raw : sorted(r)}}
\* main() has run with route.json of dataset version 1 on the volume.
\* main() has run with dataset version v loaded (0: none, the cold-start
\* refresh failed) and the upstream at version up.
RefreshUpAt(v, up) ==
    /\ mainPc = "running"
    /\ upVersion = up
    /\ metaFile = NoFile
    /\ zipFile = NoFile
    /\ routeJson = IF v = 0 THEN NoFile ELSE ParseGtfsData(v, Token(v))
    /\ routeTmp = NoFile
    /\ routeData = IF v = 0 THEN NULL ELSE routeJson
    /\ routeIdSet = IF v = 0 THEN {} ELSE Range(routeJson.routeIds)
    /\ tripIdSet = IF v = 0 THEN {} ELSE Range(routeJson.tripIds)
    /\ stopIdCache = NULL
    /\ refreshInProgress = FALSE
    /\ running = <<>>
    /\ cBusy = FALSE
    /\ cBackoff = vehiclePollInterval
    /\ consecutiveEmptyPolls = 0
    /\ gtfsRefreshInProgress = FALSE
    /\ lastVehicleFingerprint = {}
    /\ dbVehicles = <<>>
    /\ proactive = "idle"
    /\ emptyRun = 0
    /\ staleTriggers = 0
    /\ lastTrigger = "none"
    /\ lastCall = NoCall
    /\ lastLookup = NoCall
RefreshUp == RefreshUpAt(1, 1)
InitMerge ==
    /\ started = 1
    /\ busy = [f \in Feeds |-> FALSE]
    /\ backoff = [f \in Feeds |-> InitialInterval(f)]
    /\ inflight = [f \in Feeds |-> 0]
    /\ timers = [f \in Feeds |-> 1]
    /\ lastDelay = [f \in Feeds |-> InitialInterval(f)]
    /\ cachedVehicles = StoreVehicles(<<"vehicles", 1>>)
    /\ \E l \in MergeDepartureLists : cachedDepartures = StoreDepartures(DepartureResult(l))
    /\ \E l \in MergeArrivalLists : realtimeArrivals = ArrivalIndex(l)
    /\ recordedJourneys = {JourneyKey(cachedDepartures.data.departures[i]) :
                              i \in {j \in DOMAIN cachedDepartures.data.departures :
                                        cachedDepartures.data.departures[j].isDelayed}}
    /\ fails = [f \in Feeds |-> 0]
    /\ lastResult = [f \in Feeds |-> CacheData(f)]
    /\ lastOutcome = [f \in Feeds |-> "ok"]
    /\ nskips = 0
    /\ RefreshUp
    /\ cPc = "timer"
    /\ MergeInit
    /\ TripInit
    /\ LiveInit
    /\ ClientInit
    /\ ReqInit
QueryTpcs == {"55230110", "55230100"}
WalkTimes == {0, 5}
NextMerge ==
    \/ \E tpc \in QueryTpcs : \E d \in {1, 2} : \E w \in WalkTimes : QueryCached(tpc, d, w)
    \/ \E tpc \in QueryTpcs : \E d \in {1, 2} : \E w \in WalkTimes :
          \E fetched \in FetchedLists : QueryFetched(tpc, d, w, fetched)
    \/ \E tpc \in QueryTpcs : QueryFailed(tpc)
SpecMerge == InitMerge /\ [][NextMerge]_vars

\* The polling loops and the departures route together: startPolling() has
\* just been called, requests arrive between the polls.
PollStarted ==
    /\ started = 1
    /\ busy = [f \in Feeds |-> TRUE]
    /\ backoff = [f \in Feeds |-> InitialInterval(f)]
    /\ inflight = [f \in Feeds |-> 1]
    /\ timers = [f \in Feeds |-> 0]
    /\ lastDelay = [f \in Feeds |-> 0]
    /\ cachedVehicles = [data |-> <<>>, stale |-> FALSE]
    /\ cachedDepartures = NoEntry
    /\ realtimeArrivals = ArrivalIndex(<<>>)
    /\ recordedJourneys = {}
    /\ fails = [f \in Feeds |-> 0]
    /\ lastResult = [f \in Feeds |-> <<>>]
    /\ lastOutcome = [f \in Feeds |-> "none"]
    /\ nskips = 0
InitServe ==
    /\ PollStarted
    /\ RefreshUp
    /\ cPc = "timer"
    /\ MergeInit
    /\ TripInit
    /\ LiveInit
    /\ ClientInit
    /\ ReqInit
\* a step of the polling loops: no request is answered in it
NoRequest ==
    /\ response' = NoCall
    /\ lastQuery' = NoCall
    /\ lastLookup' = NoCall
    /\ UNCHANGED <<directOk, refreshRest, stopIdCache>>
\* the feeds the departures route reads
ServeFeeds == {"departures", "tripUpdates"}
NextServe ==
    \/ \E f \in ServeFeeds : PollBegin(f) /\ NoRequest
    \/ \E f \in ServeFeeds : \E result \in SampleResults(f) : PollOk(f, result) /\ NoRequest
    \/ \E f \in ServeFeeds : PollFail(f) /\ fails[f] < MaxServeFails /\ NoRequest
    \/ \E result \in SampleResults("departures") : \E at \in DOMAIN result.departures :
          PollRecordFail(result, at) /\ fails["departures"] < MaxServeFails /\ NoRequest
    \/ \E tpc \in QueryTpcs : \E d \in {1, 2} : QueryCached(tpc, d, 0)
    \/ \E tpc \in QueryTpcs : \E d \in {1, 2} : \E fetched \in FetchedLists :
          QueryFetched(tpc, d, 0, fetched)
    \/ \E tpc \in QueryTpcs : QueryFailed(tpc)
SpecServe == InitServe /\ [][NextServe]_vars

\* The trip-update poll of either entry point: the polling service keeps the
\* arrival index in memory, the collector stores the rows.
StopTimeOptions ==
    {<<NoTime, NoTime>>, <<100, NoTime>>, <<140, 200>>, <<NoTime, 200>>}
\* one trip with up to MaxStops stops, in the order of the stop sequence or
\* against it; the clock reads 200
TripPayloads ==
    LET opts == UNION {[1..n -> StopTimeOptions] : n \in 0..MaxStops}
        stus(o) == [i \in DOMAIN o |-> StopTimeUpdate(RtStop(i), i, o[i][1], 0, o[i][2])]
        reversed(q) == [i \in DOMAIN q |-> q[Len(q) + 1 - i]]
    IN {TripPayload(<<TripUpdate(TripIdOf(1, 1), stus(o))>>, 200) : o \in opts}
       \cup {TripPayload(<<TripUpdate(TripIdOf(1, 1), reversed(stus(o)))>>, 200) : o \in opts}
InitIndex ==
    /\ RefreshUp
    /\ MergeInit
    /\ upTrips \in TripPayloads
    /\ TripIdle
    /\ LiveInit
    /\ ClientInit
    /\ ReqInit
    /\ \/ PollStarted /\ cPc = "off"
       \/ PollInit /\ cPc = "timer"
NextIndex ==
    \/ PollBegin("tripUpdates") /\ UNCHANGED <<refreshVars, mergeVars, tripVars, liveVars, clientVars, reqVars>>
    \/ PollOk("tripUpdates", upTrips) /\ UNCHANGED <<refreshVars, mergeVars, tripVars, liveVars, clientVars, reqVars>>
    \/ PollFail("tripUpdates") /\ fails["tripUpdates"] < MaxServeFails
          /\ UNCHANGED <<refreshVars, mergeVars, tripVars, liveVars, clientVars, reqVars>>
    \/ TripBegin
    \/ TripOk(upTrips)
    \/ TripFail
SpecIndex == InitIndex /\ [][NextIndex]_vars

\* The live channel: the collector's vehicle loop and the connections of
\* GET /api/sse.  The polls are taken outside the operating window.
\* no vehicle, one vehicle, and the same vehicle at the same place with the
\* direction now given by the feed
LiveFeeds ==
    {<<>>, <<FeedVehicle(1)>>, <<[FeedVehicle(1) EXCEPT !.directionId = [dir |-> 1]]>>}
InitLive ==
    /\ PollInit
    /\ RefreshUp
    /\ cPc = "timer"
    /\ MergeInit
    /\ TripInit
    /\ LiveInit
    /\ ClientInit
    /\ ReqInit
NextLive ==
    \/ Connect
    \/ \E c \in DOMAIN conns : Heartbeat(c)
    \/ \E c \in DOMAIN conns : Close(c)
    \/ CollectorBegin /\ UNCHANGED <<pollVars, mergeVars, tripVars, liveVars, clientVars, reqVars>>
    \/ \E feed \in LiveFeeds :
          /\ Written + Len(listeners) <= MaxEvents
          /\ CollectorOk(feed, 5) /\ UNCHANGED <<pollVars, mergeVars, tripVars, clientVars, reqVars>>
    \/ CollectorFail /\ UNCHANGED <<pollVars, mergeVars, tripVars, liveVars, clientVars, reqVars>>
SpecLive == InitLive /\ [][NextLive]_vars


\* One page: what arrives on its live channel, its timers and visibility
\* changes.
NextClient ==
    \/ \E es \in DOMAIN sources : OnInit(es)
    \/ \E es \in DOMAIN sources : OnVehicles(es)
    \/ \E es \in DOMAIN sources : OnError(es)
    \/ \E es \in DOMAIN sources : OnInitTimeout(es)
    \/ onVisibilityChange
    \/ Tick
SpecClient == Init /\ [][NextClient]_vars
\* timers that are due fire
SpecClientLive == SpecClient /\ WF_vars(\E es \in DOMAIN sources : OnInitTimeout(es))

\* The collector's two loops over what the feeds may hold, with dataset
\* version v loaded and the upstream at version up.
InitFeed ==
    /\ PollInit
    /\ \E v \in 0..MaxVersions : \E up \in 1..MaxVersions : (v <= up /\ RefreshUpAt(v, up))
    /\ cPc = "timer"
    /\ MergeInit
    /\ TripInit
    /\ LiveInit
    /\ ClientInit
    /\ ReqInit
NextFeed ==
    \/ CollectorBegin /\ UNCHANGED <<pollVars, mergeVars, tripVars, liveVars, clientVars, reqVars>>
    \/ \E feed \in VehicleFeeds :
          CollectorOk(feed, 5) /\ UNCHANGED <<pollVars, mergeVars, tripVars, clientVars, reqVars>>
    \/ CollectorFail /\ UNCHANGED <<pollVars, mergeVars, tripVars, liveVars, clientVars, reqVars>>
    \/ TripBegin
    \/ \E feed \in TripFeeds : TripOk(TripPayload(fetchTripUpdates(feed), 200))
    \/ TripFail
SpecFeed == InitFeed /\ [][NextFeed]_vars

\* The collector's two loops storing what they fetched, with listeners on the
\* live channel.
NextStore ==
    \/ Connect
    \/ CollectorBegin /\ UNCHANGED <<pollVars, mergeVars, tripVars, liveVars, clientVars, reqVars>>
    \/ \E feed \in StoreVehicleFeeds :
          /\ Written + Len(listeners) <= MaxEvents
          /\ CollectorOk(feed, 5) /\ UNCHANGED <<pollVars, mergeVars, tripVars, clientVars, reqVars>>
    \/ \E feed \in StoreVehicleFeeds :
          CollectorStoreFail(feed) /\ UNCHANGED <<pollVars, mergeVars, tripVars, liveVars, clientVars, reqVars>>
    \/ TripBegin
    \/ \E feed \in StoreTripFeeds : TripOk(TripPayload(fetchTripUpdates(feed), 200))
    \/ \E feed \in StoreTripFeeds : TripStoreFail(TripPayload(fetchTripUpdates(feed), 200))
SpecStore == InitLive /\ [][NextStore]_vars

\* The data volume during refreshes, one file operation at a time, with the
\* readers of route.json (the loader at the start, the version check) and a
\* kill of the process at any moment.
NextDisk ==
    \/ MainBoot /\ UNCHANGED <<pollVars, mergeVars, tripVars, liveVars, clientVars, reqVars>>
    \/ ProactiveBegin /\ UNCHANGED <<pollVars, mergeVars, tripVars, liveVars, clientVars, reqVars>>
    \/ ProactiveDone /\ UNCHANGED <<pollVars, mergeVars, tripVars, liveVars, clientVars, reqVars>>
    \/ \E i \in DOMAIN running : RefreshHeadOk(i) /\ UNCHANGED <<pollVars, mergeVars, tripVars, liveVars, clientVars, reqVars>>
    \/ \E i \in DOMAIN running : RefreshDownloadOk(i) /\ UNCHANGED <<pollVars, mergeVars, tripVars, liveVars, clientVars, reqVars>>
    \/ \E i \in DOMAIN running : RefreshWriteOpen(i) /\ UNCHANGED <<pollVars, mergeVars, tripVars, liveVars, clientVars, reqVars>>
    \/ \E i \in DOMAIN running : RefreshWriteEnd(i) /\ UNCHANGED <<pollVars, mergeVars, tripVars, liveVars, clientVars, reqVars>>
    \/ \E i \in DOMAIN running : RefreshRename(i) /\ UNCHANGED <<pollVars, mergeVars, tripVars, liveVars, clientVars, reqVars>>
    \/ \E i \in DOMAIN running : RefreshInvalidate(i) /\ UNCHANGED <<pollVars, mergeVars, tripVars, liveVars, clientVars, reqVars>>
    \/ UpstreamRotate /\ UNCHANGED <<pollVars, mergeVars, tripVars, liveVars, clientVars, reqVars>>
    \/ Killed /\ UNCHANGED <<pollVars, mergeVars, tripVars, liveVars, clientVars, reqVars>>
SpecDisk == InitRefresh /\ [][NextDisk]_vars

\* A start with no route.json on the data volume: the cold-start refresh, the
\* server once main() listens, the version check that starts later refreshes,
\* and the requests for the vehicles and for the live channel.
NextCold ==
    \/ MainBoot /\ UNCHANGED <<pollVars, mergeVars, tripVars, liveVars, clientVars, reqVars>>
    \/ \E i \in DOMAIN running : RefreshHeadOk(i) /\ UNCHANGED <<pollVars, mergeVars, tripVars, liveVars, clientVars, reqVars>>
    \/ \E i \in DOMAIN running : RefreshHeadFail(i) /\ UNCHANGED <<pollVars, mergeVars, tripVars, liveVars, clientVars, reqVars>>
    \/ \E i \in DOMAIN running : RefreshDownloadOk(i) /\ UNCHANGED <<pollVars, mergeVars, tripVars, liveVars, clientVars, reqVars>>
    \/ \E i \in DOMAIN running : RefreshParseOk(i) /\ UNCHANGED <<pollVars, mergeVars, tripVars, liveVars, clientVars, reqVars>>
    \/ \E i \in DOMAIN running : RefreshInvalidate(i) /\ UNCHANGED <<pollVars, mergeVars, tripVars, liveVars, clientVars, reqVars>>
    \/ ProactiveBegin /\ UNCHANGED <<pollVars, mergeVars, tripVars, liveVars, clientVars, reqVars>>
    \/ ProactiveDone /\ UNCHANGED <<pollVars, mergeVars, tripVars, liveVars, clientVars, reqVars>>
    \/ mainPc = "running" /\ StartPolling /\ UNCHANGED <<refreshVars, mergeVars, tripVars, liveVars, clientVars, reqVars>>
    \/ PollBegin("vehicles") /\ UNCHANGED <<refreshVars, mergeVars, tripVars, liveVars, clientVars, reqVars>>
    \/ \E feed \in RawFeeds \cup DirectionFeeds : PollOk("vehicles", fetchVehiclePositions(feed)) /\ UNCHANGED <<refreshVars, mergeVars, tripVars, liveVars, clientVars, reqVars>>
    \/ mainPc = "running" /\ Connect
    \/ GetVehicles
SpecCold == Init /\ [][NextCold]_vars
====
